---- MODULE Spec2Model ----
(***************************************************************************)
(* Outage-detection state machine of the VRChat status bot                 *)
(* (src/discord_vrc_bot.py): the StatusContext record, the severity        *)
(* classifier, the inconclusive-analysis guard and the periodic            *)
(* monitor_task tick with its cooldown gates.                              *)
(*                                                                         *)
(* Text is modelled as a sequence of characters.  An ASCII character is a  *)
(* one-character string; a Japanese character is written as its Unicode    *)
(* code point ("U516C" is the first character of the keyword for           *)
(* "official").                                                            *)
(***************************************************************************)
EXTENDS Integers, Sequences, FiniteSets, TLC

(***************************************************************************)
(* Bounds of the model.                                                    *)
(***************************************************************************)
\* the monotonic clock is followed up to MaxNow seconds
MaxNow == 3600
\* when the process starts with the clock already past one alert window, the
\* clock is followed up to MaxNowWarm seconds
MaxNowWarm == 4800
\* consecutive_outage_count is followed up to MaxCount
MaxCount == 3
\* notify_streak, degraded_streak and normal_streak are followed up to MaxStreak
MaxStreak == 2

(***************************************************************************)
(* Program constants.                                                      *)
(***************************************************************************)
ALERT_COOLDOWN_SEC == 1800
RECOVERY_COOLDOWN_SEC == 1800
OUTAGE_NOTIFY_CONFIRM_COUNT == 2
RECOVERY_CONFIRM_COUNT == 3
\* is_critical = new_severity_score >= 3
CRITICAL_SEVERITY == 3

\* MonitorState
NORMAL == "NORMAL"
SUSPECTED == "SUSPECTED"
OUTAGE == "OUTAGE"
MONITORING == "MONITORING"
MonitorState == {NORMAL, SUSPECTED, OUTAGE, MONITORING}

\* the three values alert_title takes in monitor_task
TITLE_DETECTED == "FirstDetection"
TITLE_WORSENED_AGAIN == "ReEscalation"
TITLE_SEVERITY_UP == "SeverityIncrease"
AlertTitles == {TITLE_DETECTED, TITLE_WORSENED_AGAIN, TITLE_SEVERITY_UP}

(***************************************************************************)
(* Text helpers: str.lower, str.strip and the `in` substring test.         *)
(***************************************************************************)
UpperChars == <<"A", "B", "C", "D", "E", "F", "G", "H", "I", "J", "K", "L", "M",
                "N", "O", "P", "Q", "R", "S", "T", "U", "V", "W", "X", "Y", "Z">>
LowerChars == <<"a", "b", "c", "d", "e", "f", "g", "h", "i", "j", "k", "l", "m",
                "n", "o", "p", "q", "r", "s", "t", "u", "v", "w", "x", "y", "z">>
Whitespace == {" ", "\t", "\n"}

LowerChar(c) ==
    IF \E i \in 1..Len(UpperChars) : UpperChars[i] = c
    THEN LowerChars[CHOOSE i \in 1..Len(UpperChars) : UpperChars[i] = c]
    ELSE c

Lower(s) == [i \in 1..Len(s) |-> LowerChar(s[i])]

Strip(s) ==
    LET keep == {i \in 1..Len(s) : s[i] \notin Whitespace}
    IN  IF keep = {} THEN <<>>
        ELSE LET first == CHOOSE i \in keep : \A j \in keep : i <= j
                 last  == CHOOSE i \in keep : \A j \in keep : j <= i
             IN  SubSeq(s, first, last)

\* kw in s
Contains(s, kw) ==
    \E i \in 0..(Len(s) - Len(kw)) : SubSeq(s, i + 1, i + Len(kw)) = kw

(***************************************************************************)
(* Keywords of get_severity_score.                                         *)
(***************************************************************************)
KW_KOUSHIKI == <<"U516C", "U5F0F">>
KW_OFFICIAL == <<"o", "f", "f", "i", "c", "i", "a", "l">>
KW_MAJOR == <<"m", "a", "j", "o", "r">>
KW_SETSUZOKUFUKA == <<"U63A5", "U7D9A", "U4E0D", "U53EF">>
KW_HAIRENAI == <<"U5165", "U308C", "U306A", "U3044">>
KW_CANNOT_CONNECT == <<"c", "a", "n", "n", "o", "t", " ", "c", "o", "n", "n", "e", "c", "t">>
KW_FUANTEI == <<"U4E0D", "U5B89", "U5B9A">>
KW_OMOI == <<"U91CD", "U3044">>
KW_DEGRADED == <<"d", "e", "g", "r", "a", "d", "e", "d">>
KW_UNSTABLE == <<"u", "n", "s", "t", "a", "b", "l", "e">>
KW_KEIBI == <<"U8EFD", "U5FAE">>
KW_MINOR == <<"m", "i", "n", "o", "r">>
KW_NASHI == <<"U306A", "U3057">>
KW_NORMAL == <<"n", "o", "r", "m", "a", "l">>
KW_UNKNOWN == <<"u", "n", "k", "n", "o", "w", "n">>

\* the rule for "minor" is tried before the rule for "degraded"
get_severity_score_minor_first(severity_str) ==
    LET s == Lower(severity_str)
    IN  IF Contains(s, KW_KOUSHIKI) \/ Contains(s, KW_OFFICIAL) \/ Contains(s, KW_MAJOR) THEN 4
        ELSE IF Contains(s, KW_SETSUZOKUFUKA) \/ Contains(s, KW_HAIRENAI)
                \/ Contains(s, KW_CANNOT_CONNECT) THEN 3
        ELSE IF Contains(s, KW_KEIBI) \/ Contains(s, KW_MINOR) THEN 1
        ELSE IF Contains(s, KW_FUANTEI) \/ Contains(s, KW_OMOI)
                \/ Contains(s, KW_DEGRADED) \/ Contains(s, KW_UNSTABLE) THEN 2
        ELSE IF Contains(s, KW_NASHI) \/ Contains(s, KW_NORMAL) THEN 0
        ELSE 2

\* StatusContext.get_severity_score
get_severity_score(severity_str) ==
    LET s == Lower(severity_str)
    IN  IF Contains(s, KW_KOUSHIKI) \/ Contains(s, KW_OFFICIAL) \/ Contains(s, KW_MAJOR) THEN 4
        ELSE IF Contains(s, KW_SETSUZOKUFUKA) \/ Contains(s, KW_HAIRENAI)
                \/ Contains(s, KW_CANNOT_CONNECT) THEN 3
        ELSE IF Contains(s, KW_FUANTEI) \/ Contains(s, KW_OMOI)
                \/ Contains(s, KW_DEGRADED) \/ Contains(s, KW_UNSTABLE) THEN 2
        ELSE IF Contains(s, KW_KEIBI) \/ Contains(s, KW_MINOR) THEN 1
        ELSE IF Contains(s, KW_NASHI) \/ Contains(s, KW_NORMAL) THEN 0
        ELSE 2

\* the guard fires for every label that contains the marker
is_analysis_inconclusive_contains(analysis) ==
    Contains(Lower(analysis.severity), KW_UNKNOWN)

\* the guard with the comparison made on the raw label (no strip, no lower)
is_analysis_inconclusive_raw(analysis) ==
    analysis.severity = KW_UNKNOWN

\* VRChatStatusBot._is_analysis_inconclusive
is_analysis_inconclusive(analysis) ==
    LET sev == Lower(Strip(analysis.severity))
    IN  sev = KW_UNKNOWN

(***************************************************************************)
(* Inputs of a tick.                                                       *)
(***************************************************************************)
\* the example labels of OutageAnalysis.severity
SEV_NASHI == KW_NASHI
SEV_KEIBI == KW_KEIBI
SEV_FUANTEI == KW_FUANTEI
SEV_SETSUZOKUFUKA == KW_SETSUZOKUFUKA
SEV_MAJOR_OUTAGE == <<"M", "a", "j", "o", "r", " ", "O", "u", "t", "a", "g", "e">>
\* the label analyze_situation_report returns when the judgment fails
SEV_UNKNOWN == <<"U", "n", "k", "n", "o", "w", "n">>
\* the same marker in lower case with surrounding blanks
SEV_UNKNOWN_PADDED == <<" ", "u", "n", "k", "n", "o", "w", "n", " ">>
\* the empty label, which no keyword matches
SEV_EMPTY == <<>>
\* a label that contains the marker among other words, none of them a keyword
SEV_UNKNOWN_CAUSE == <<"u", "n", "k", "n", "o", "w", "n", " ", "c", "a", "u", "s", "e">>

SeverityLabels ==
    {SEV_NASHI, SEV_KEIBI, SEV_FUANTEI, SEV_SETSUZOKUFUKA, SEV_MAJOR_OUTAGE,
     SEV_UNKNOWN, SEV_UNKNOWN_PADDED, SEV_EMPTY, SEV_UNKNOWN_CAUSE}

\* OutageAnalysis (notification_message only feeds the message text)
OutageAnalysis ==
    [is_outage : BOOLEAN, is_official : BOOLEAN, severity : SeverityLabels,
     should_notify : BOOLEAN]

\* _is_analysis_inconclusive on the labels of the model, evaluated once
inconclusive == [l \in SeverityLabels |-> is_analysis_inconclusive([severity |-> l])]

\* the empty label gets a value outside the scores
severity_score_empty_unscored ==
    [l \in SeverityLabels |-> IF l = SEV_EMPTY THEN 0 - 1 ELSE get_severity_score(l)]

\* get_severity_score on the labels of the model, evaluated once
severity_score == [l \in SeverityLabels |-> get_severity_score(l)]

(***************************************************************************)
(* The two collaborators of a tick.                                        *)
(***************************************************************************)
\* what _execute_tool_loop returns: the text of the answer, or the text made
\* from the exception it caught
REPORT_TEXT == "response.text"
REPORT_ERROR == "Error in tool loop"

\* GeminiHandler._execute_tool_loop; raised: the chat session raised
execute_tool_loop(raised) == IF raised THEN REPORT_ERROR ELSE REPORT_TEXT

\* GeminiHandler.investigate_server_status
investigate_server_status(raised) == execute_tool_loop(raised)

\* the answers the judge model can give to a report: the code puts no
\* condition on the report it sends, and none on the answer
parsed_answers(investigation_report) == OutageAnalysis

\* the value analyze_situation_report returns when generate_content raises
FailedAnalysis ==
    [is_outage |-> FALSE, is_official |-> FALSE, severity |-> SEV_UNKNOWN,
     should_notify |-> FALSE]

\* GeminiHandler.analyze_situation_report; raised: generate_content raised,
\* parsed: response.parsed
analyze_situation_report(investigation_report, raised, parsed) ==
    IF raised THEN FailedAnalysis ELSE parsed

\* the judgments a run of monitor_task can get from its two collaborators
Judgments ==
    {analyze_situation_report(report, raised, parsed) :
        report \in {investigate_server_status(FALSE), investigate_server_status(TRUE)},
        raised \in BOOLEAN,
        parsed \in OutageAnalysis}

\* the reports an investigation can return
InvestigationReports == {investigate_server_status(raised) : raised \in BOOLEAN}

\* VRChatStatusBot.__init__: latest_investigation_report before any investigation
REPORT_NONE == ""
\* fake_report of run_fake_diagnosis_test
FAKE_REPORT == "fake_report"

\* seconds of the monotonic clock between two successive runs of monitor_task
Deltas == {300, 1800}

\* interaction.channel_id: the tick only asks whether any channel is registered
ChannelIds == {1}
\* interaction.guild.id, role.id and interaction.user.id
GuildIds == {1}
RoleIds == {1}
UserIds == {1}

\* where a run of monitor_task returned
AT_START == "not run yet"
AT_NO_CHANNELS == "no target channels"
AT_INCONCLUSIVE == "analysis inconclusive"
AT_END == "end"
\* the run ended with an exception in _is_analysis_inconclusive
AT_RAISED == "raised at the guard"
ReturnPoints == {AT_START, AT_NO_CHANNELS, AT_INCONCLUSIVE, AT_END, AT_RAISED}

\* a call of get_severity_score on its own is recorded as its argument, whether
\* it has returned, and its result; no such call has been made
NotClassified == [severity_str |-> SEV_NASHI, returned |-> FALSE, score |-> 0]

\* what a handler answered to its responder: the handler, the report it worked
\* on, and whether it reported success; a run of monitor_task answers nobody
NoResponse == [handler |-> "none", report |-> REPORT_NONE, ok |-> FALSE]

\* the calls of ChannelManager.add_channel and remove_channel made on their
\* own work on the list data["channels"]: registry holds that list, the last
\* call with its argument and the value it returned, and the list before the
\* call; no such call has been made on the empty list of _load_data
NoRegistryCall ==
    [channels |-> <<>>, call |-> "none", channel_id |-> 0, result |-> FALSE,
     before |-> <<>>]

\* the awaits of monitor_task: the coroutine is not running, or it waits for
\* the investigation, for the judgment, for the presence update, or for
\* broadcast_message
WAIT_NONE == "not running"
WAIT_INVESTIGATION == "await investigate_server_status"
WAIT_JUDGMENT == "await analyze_situation_report"
WAIT_PRESENCE == "await update_presence_from_state"
WAIT_BROADCAST == "await broadcast_message"
Awaits == {WAIT_NONE, WAIT_INVESTIGATION, WAIT_JUDGMENT, WAIT_PRESENCE, WAIT_BROADCAST}

\* what status_info put into its embed, and where monitor_task was waiting
\* then; status_info has not been called
NoInspection ==
    [read |-> FALSE, at |-> WAIT_NONE, state |-> NORMAL,
     consecutive_outage_count |-> 0, consecutive_recovery_count |-> 0,
     notification_sent |-> FALSE]

\* what the runs of monitor_task have held back: unannounced, the outage was
\* entered from NORMAL or SUSPECTED with its alert held back by the cooldown
\* and every judgment since was an outage with should_notify and a score of
\* at least 1, none of them alerted; held_score, the score of the last
\* severity increase the cooldown held back in this stay in OUTAGE since its
\* last alert (0: none); dropped, the last recovery was held back by the
\* cooldown and no alert has been sent since; caught_up, the last run sent the
\* alert of an outage that was unannounced until then
NoIncident ==
    [unannounced |-> FALSE, held_score |-> 0, dropped |-> FALSE, caught_up |-> FALSE]

\* _load_data: default_data["mentions"]
NoMentions == [guild_id \in {} |-> [roles |-> {}, users |-> {}]]

VARIABLES
    state,
    consecutive_outage_count,
    consecutive_recovery_count,
    notify_streak,
    degraded_streak,
    normal_streak,
    last_alert_timestamp,
    last_recovery_timestamp,
    last_severity,
    last_severity_score,
    notification_sent,
    channels,
    now_ts,
    prev_state,
    returned_at,
    send_alert,
    send_recovery,
    alert_title,
    alert_times,
    recovery_times,
    classified,
    delivered,
    clean_run,
    latest_investigation_report,
    mentions,
    chat_sessions,
    response,
    registry,
    pc,
    inspected,
    incident

\* the fields of StatusContext
ctx == <<state, consecutive_outage_count, consecutive_recovery_count,
         notify_streak, degraded_streak, normal_streak,
         last_alert_timestamp, last_recovery_timestamp,
         last_severity, last_severity_score, notification_sent>>

\* classified holds a call of get_severity_score made on its own: its argument
\* severity_str, whether it has returned, and its result score.
\* what a run of monitor_task leaves behind: the clock reading, the state it
\* started in, where it returned, its decision, and the times of all alerts
\* and of all recovery notifications, the channels its notification reached,
\* and how many conclusive normal judgments the runs have seen in a row, counted
\* up to RECOVERY_CONFIRM_COUNT
tick == <<now_ts, prev_state, returned_at, send_alert, send_recovery, alert_title,
          alert_times, recovery_times, delivered, clean_run>>

\* what the bot holds besides the StatusContext and the channel list: the
\* report of the last investigation, the mention settings of ChannelManager,
\* the chat sessions of GeminiHandler, and the answer of the last handler
bot == <<latest_investigation_report, mentions, chat_sessions, response>>

\* where the coroutine of monitor_task waits, and what /status_info last read
loop == <<pc, inspected>>

vars == <<ctx, channels, tick, classified, bot, registry, loop, incident>>

\* StatusContext.__init__ and the module-level status_context; the channel
\* list is whatever ChannelManager._load_data finds
Constructed ==
    /\ state = NORMAL
    /\ consecutive_outage_count = 0
    /\ consecutive_recovery_count = 0
    /\ notify_streak = 0
    /\ degraded_streak = 0
    /\ normal_streak = 0
    /\ last_alert_timestamp = 0
    /\ last_recovery_timestamp = 0
    /\ last_severity = SEV_NASHI
    /\ last_severity_score = 0
    /\ notification_sent = FALSE
    /\ channels \in SUBSET ChannelIds
    /\ prev_state = NORMAL
    /\ returned_at = AT_START
    /\ send_alert = FALSE
    /\ send_recovery = FALSE
    /\ alert_title = TITLE_DETECTED
    /\ alert_times = {}
    /\ recovery_times = {}
    /\ delivered = {}
    /\ clean_run = 0
    /\ incident = NoIncident
    /\ latest_investigation_report = REPORT_NONE
    /\ mentions = NoMentions
    /\ chat_sessions = {}
    /\ response = NoResponse
    /\ registry = NoRegistryCall
    /\ pc = WAIT_NONE
    /\ inspected = NoInspection

\* the process starts when the monotonic clock reads 0
Init ==
    /\ Constructed
    /\ now_ts = 0
    /\ classified = NotClassified

\* the process starts when the monotonic clock already reads one alert window,
\* so that the cooldown timestamps of __init__ lie a whole window in the past
InitWarm ==
    /\ Constructed
    /\ now_ts = ALERT_COOLDOWN_SEC
    /\ classified = NotClassified

\* the StatusContext as one value
Context ==
    [state |-> state,
     consecutive_outage_count |-> consecutive_outage_count,
     consecutive_recovery_count |-> consecutive_recovery_count,
     notify_streak |-> notify_streak,
     degraded_streak |-> degraded_streak,
     normal_streak |-> normal_streak,
     last_alert_timestamp |-> last_alert_timestamp,
     last_recovery_timestamp |-> last_recovery_timestamp,
     last_severity |-> last_severity,
     last_severity_score |-> last_severity_score,
     notification_sent |-> notification_sent]

\* StatusContext.reset_counters
reset_counters(c) ==
    [c EXCEPT !.consecutive_outage_count = 0,
              !.consecutive_recovery_count = 0,
              !.notify_streak = 0,
              !.degraded_streak = 0,
              !.normal_streak = 0]

\* send_alert, send_recovery and alert_title as monitor_task declares them
NoDecision == [send_alert |-> FALSE, send_recovery |-> FALSE, alert_title |-> TITLE_DETECTED]

\* the alert gate reading the recovery timestamp
can_send_alert_other_stamp(c, t) == (t - c.last_recovery_timestamp) >= ALERT_COOLDOWN_SEC

\* can_send_alert
can_send_alert(c, t) == (t - c.last_alert_timestamp) >= ALERT_COOLDOWN_SEC

\* the recovery gate is open at every clock reading
can_send_recovery_ungated(c, t) == (t - c.last_recovery_timestamp) >= 0

\* can_send_recovery
can_send_recovery(c, t) == (t - c.last_recovery_timestamp) >= RECOVERY_COOLDOWN_SEC

\* an outage below the critical score is confirmed by the third judgment
notify_confirm_third(a) ==
    IF severity_score[a.severity] >= CRITICAL_SEVERITY \/ a.is_official
    THEN 1 ELSE OUTAGE_NOTIFY_CONFIRM_COUNT + 1

\* early confirmation only for the top score
notify_confirm_top_only(a) ==
    IF severity_score[a.severity] > CRITICAL_SEVERITY \/ a.is_official
    THEN 1 ELSE OUTAGE_NOTIFY_CONFIRM_COUNT

\* every outage judgment confirms at once
notify_confirm_always_one(a) == 1

\* is_critical and notify_confirm
notify_confirm(a) ==
    IF severity_score[a.severity] >= CRITICAL_SEVERITY \/ a.is_official
    THEN 1 ELSE OUTAGE_NOTIFY_CONFIRM_COUNT

\* the streak updates without the normal_streak count
update_streaks_no_normal(c, a) ==
    [c EXCEPT !.notify_streak = IF a.should_notify THEN c.notify_streak + 1 ELSE 0,
              !.normal_streak = 0,
              !.degraded_streak = IF a.is_outage /\ ~a.should_notify
                                  THEN c.degraded_streak + 1 ELSE 0]

\* monitor_task: the streak updates that precede the state machine
update_streaks(c, a) ==
    [c EXCEPT !.notify_streak = IF a.should_notify THEN c.notify_streak + 1 ELSE 0,
              !.normal_streak = IF ~a.is_outage THEN c.normal_streak + 1 ELSE 0,
              !.degraded_streak = IF a.is_outage /\ ~a.should_notify
                                  THEN c.degraded_streak + 1 ELSE 0]

\* the outage judgment is counted but the recovery count is kept
count_outage_recovery_kept(c) ==
    [c EXCEPT !.consecutive_outage_count = c.consecutive_outage_count + 1]

\* the outage judgment is not counted
count_outage_forgotten(c) ==
    [c EXCEPT !.consecutive_recovery_count = 0]

\* monitor_task: an outage judgment outside OUTAGE is counted
count_outage(c) ==
    [c EXCEPT !.consecutive_outage_count = c.consecutive_outage_count + 1,
              !.consecutive_recovery_count = 0]

\* only an official outage is ever confirmed
is_confirmed_official_only(c, a) ==
    a.is_official

\* is_confirmed
is_confirmed(c, a) ==
    a.is_official \/ (c.consecutive_outage_count >= notify_confirm(a))

\* the alert goes out without its time being recorded
new_outage_unstamped(c, a, t) ==
    IF can_send_alert(c, t)
    THEN [ctx |-> [c EXCEPT !.state = OUTAGE,
                            !.notification_sent = TRUE,
                            !.last_severity = a.severity,
                            !.last_severity_score = severity_score[a.severity]],
          decision |-> [NoDecision EXCEPT !.send_alert = TRUE]]
    ELSE [ctx |-> [c EXCEPT !.state = OUTAGE], decision |-> NoDecision]

\* the cooldown holds back the transition together with the alert
new_outage_blocked_by_cooldown(c, a, t) ==
    IF can_send_alert(c, t)
    THEN [ctx |-> [c EXCEPT !.state = OUTAGE,
                            !.last_alert_timestamp = t,
                            !.notification_sent = TRUE,
                            !.last_severity = a.severity,
                            !.last_severity_score = severity_score[a.severity]],
          decision |-> [NoDecision EXCEPT !.send_alert = TRUE]]
    ELSE [ctx |-> c, decision |-> NoDecision]

\* monitor_task: confirmed, state != OUTAGE
new_outage(c, a, t) ==
    IF can_send_alert(c, t)
    THEN [ctx |-> [c EXCEPT !.state = OUTAGE,
                            !.last_alert_timestamp = t,
                            !.notification_sent = TRUE,
                            !.last_severity = a.severity,
                            !.last_severity_score = severity_score[a.severity]],
          decision |-> [NoDecision EXCEPT !.send_alert = TRUE]]
    ELSE [ctx |-> [c EXCEPT !.state = OUTAGE], decision |-> NoDecision]

\* monitor_task: confirmed, state == OUTAGE
worsened_again(c, a, t) ==
    IF can_send_alert(c, t)
    THEN [ctx |-> [c EXCEPT !.state = OUTAGE, !.last_alert_timestamp = t],
          decision |-> [NoDecision EXCEPT !.send_alert = TRUE,
                                          !.alert_title = TITLE_WORSENED_AGAIN]]
    ELSE [ctx |-> [c EXCEPT !.state = OUTAGE], decision |-> NoDecision]

\* the alert already goes out while the outage is only suspected
detect_outage_alert_on_suspicion(c0, a, t) ==
    LET c == count_outage(c0)
    IN  IF is_confirmed(c, a)
        THEN IF c.state # OUTAGE THEN new_outage(c, a, t) ELSE worsened_again(c, a, t)
        ELSE [ctx |-> [c EXCEPT !.state = SUSPECTED],
              decision |-> [NoDecision EXCEPT !.send_alert = can_send_alert(c, t)]]

\* monitor_task: state in [NORMAL, SUSPECTED, MONITORING] and analysis.is_outage
detect_outage(c0, a, t) ==
    LET c == count_outage(c0)
    IN  IF is_confirmed(c, a)
        THEN IF c.state # OUTAGE THEN new_outage(c, a, t) ELSE worsened_again(c, a, t)
        ELSE [ctx |-> [c EXCEPT !.state = SUSPECTED], decision |-> NoDecision]

\* recovery is confirmed one judgment early
recovery_confirmed_early(c) ==
    c.consecutive_recovery_count >= RECOVERY_CONFIRM_COUNT - 1

\* consecutive_recovery_count >= RECOVERY_CONFIRM_COUNT
recovery_confirmed(c) ==
    c.consecutive_recovery_count >= RECOVERY_CONFIRM_COUNT

\* a recovery the cooldown holds back is put off: the state stays as it is
\* until the notification can go out
recover_deferred(c, t) ==
    LET r == [reset_counters(c) EXCEPT !.state = NORMAL,
                                       !.last_severity = SEV_NASHI,
                                       !.last_severity_score = 0,
                                       !.notification_sent = FALSE]
    IN  IF c.notification_sent /\ can_send_recovery(c, t)
        THEN [ctx |-> [r EXCEPT !.last_recovery_timestamp = t],
              decision |-> [NoDecision EXCEPT !.send_recovery = TRUE]]
        ELSE IF c.notification_sent
             THEN [ctx |-> [c EXCEPT !.consecutive_recovery_count = RECOVERY_CONFIRM_COUNT - 1],
                   decision |-> NoDecision]
             ELSE [ctx |-> r, decision |-> NoDecision]

\* the recovery is announced together with an alert
recover_with_alert(c, t) ==
    LET r == [reset_counters(c) EXCEPT !.state = NORMAL,
                                       !.last_severity = SEV_NASHI,
                                       !.last_severity_score = 0,
                                       !.notification_sent = FALSE]
    IN  IF c.notification_sent /\ can_send_recovery(c, t)
        THEN [ctx |-> [r EXCEPT !.last_recovery_timestamp = t],
              decision |-> [NoDecision EXCEPT !.send_recovery = TRUE,
                                              !.send_alert = TRUE]]
        ELSE [ctx |-> r, decision |-> NoDecision]

\* a recovery the cooldown holds back leaves notification_sent set
recover_flag_kept(c, t) ==
    LET r == [reset_counters(c) EXCEPT !.state = NORMAL,
                                       !.last_severity = SEV_NASHI,
                                       !.last_severity_score = 0]
    IN  IF c.notification_sent /\ can_send_recovery(c, t)
        THEN [ctx |-> [r EXCEPT !.last_recovery_timestamp = t,
                                !.notification_sent = FALSE],
              decision |-> [NoDecision EXCEPT !.send_recovery = TRUE]]
        ELSE [ctx |-> r, decision |-> NoDecision]

\* the recovery is announced whether or not the incident was ever notified
recover_without_alert(c, t) ==
    LET r == [reset_counters(c) EXCEPT !.state = NORMAL,
                                       !.last_severity = SEV_NASHI,
                                       !.last_severity_score = 0,
                                       !.notification_sent = FALSE]
    IN  IF can_send_recovery(c, t)
        THEN [ctx |-> [r EXCEPT !.last_recovery_timestamp = t],
              decision |-> [NoDecision EXCEPT !.send_recovery = TRUE]]
        ELSE [ctx |-> r, decision |-> NoDecision]

\* monitor_task: recovery confirmed in MONITORING
recover(c, t) ==
    LET r == [reset_counters(c) EXCEPT !.state = NORMAL,
                                       !.last_severity = SEV_NASHI,
                                       !.last_severity_score = 0,
                                       !.notification_sent = FALSE]
    IN  IF c.notification_sent /\ can_send_recovery(c, t)
        THEN [ctx |-> [r EXCEPT !.last_recovery_timestamp = t],
              decision |-> [NoDecision EXCEPT !.send_recovery = TRUE]]
        ELSE [ctx |-> r, decision |-> NoDecision]

\* the suspicion is cleared without resetting the count
clear_suspicion_keep_count(c) ==
    [ctx |-> [c EXCEPT !.state = NORMAL], decision |-> NoDecision]

\* the count is reset but the state is left as it is
clear_suspicion_keep_state(c) ==
    [ctx |-> [c EXCEPT !.consecutive_outage_count = 0], decision |-> NoDecision]

\* monitor_task: a normal judgment in SUSPECTED
clear_suspicion(c) ==
    [ctx |-> [c EXCEPT !.state = NORMAL, !.consecutive_outage_count = 0],
     decision |-> NoDecision]

\* monitor_task: a normal judgment in NORMAL
stay_normal(c) ==
    [ctx |-> [c EXCEPT !.consecutive_outage_count = 0], decision |-> NoDecision]

\* a normal judgment in MONITORING also resets the outage count
observe_normal_count_reset(c0, a, t) ==
    IF c0.state = MONITORING
    THEN LET c == [c0 EXCEPT !.consecutive_recovery_count = c0.consecutive_recovery_count + 1,
                             !.consecutive_outage_count = 0]
         IN  IF recovery_confirmed(c) THEN recover(c, t)
             ELSE [ctx |-> c, decision |-> NoDecision]
    ELSE IF c0.state = SUSPECTED THEN clear_suspicion(c0)
    ELSE stay_normal(c0)

\* monitor_task: state in [NORMAL, SUSPECTED, MONITORING] and not analysis.is_outage
observe_normal(c0, a, t) ==
    IF c0.state = MONITORING
    THEN LET c == [c0 EXCEPT !.consecutive_recovery_count = c0.consecutive_recovery_count + 1]
         IN  IF recovery_confirmed(c) THEN recover(c, t)
             ELSE [ctx |-> c, decision |-> NoDecision]
    ELSE IF c0.state = SUSPECTED THEN clear_suspicion(c0)
    ELSE stay_normal(c0)

\* a severity increase the cooldown holds back is recorded as the new score
severity_up_score_taken(c, a, t) ==
    IF can_send_alert(c, t)
    THEN [ctx |-> [c EXCEPT !.last_alert_timestamp = t,
                            !.last_severity = a.severity,
                            !.last_severity_score = severity_score[a.severity]],
          decision |-> [NoDecision EXCEPT !.send_alert = TRUE,
                                          !.alert_title = TITLE_SEVERITY_UP]]
    ELSE [ctx |-> [c EXCEPT !.last_severity_score = severity_score[a.severity]],
          decision |-> NoDecision]

\* the alert goes out but the score is not recorded
severity_up_score_kept(c, a, t) ==
    IF can_send_alert(c, t)
    THEN [ctx |-> [c EXCEPT !.last_alert_timestamp = t,
                            !.last_severity = a.severity],
          decision |-> [NoDecision EXCEPT !.send_alert = TRUE,
                                          !.alert_title = TITLE_SEVERITY_UP]]
    ELSE [ctx |-> c, decision |-> NoDecision]

\* monitor_task: in OUTAGE, a higher score with should_notify
severity_up(c, a, t) ==
    IF can_send_alert(c, t)
    THEN [ctx |-> [c EXCEPT !.last_alert_timestamp = t,
                            !.last_severity = a.severity,
                            !.last_severity_score = severity_score[a.severity]],
          decision |-> [NoDecision EXCEPT !.send_alert = TRUE,
                                          !.alert_title = TITLE_SEVERITY_UP]]
    ELSE [ctx |-> c, decision |-> NoDecision]

\* the recorded score is dropped on the way to MONITORING
enter_monitoring_score_cleared(c) ==
    [ctx |-> [c EXCEPT !.state = MONITORING, !.consecutive_recovery_count = 1,
                       !.last_severity_score = 0],
     decision |-> NoDecision]

\* MONITORING is entered with a recovery count of 2
enter_monitoring_head_start(c) ==
    [ctx |-> [c EXCEPT !.state = MONITORING, !.consecutive_recovery_count = 2],
     decision |-> NoDecision]

\* the outage count starts afresh in MONITORING
enter_monitoring_count_reset(c) ==
    [ctx |-> [c EXCEPT !.state = MONITORING, !.consecutive_recovery_count = 1,
                       !.consecutive_outage_count = 0],
     decision |-> NoDecision]

\* monitor_task: in OUTAGE, a normal judgment
enter_monitoring(c) ==
    [ctx |-> [c EXCEPT !.state = MONITORING, !.consecutive_recovery_count = 1],
     decision |-> NoDecision]

\* monitor_task: state == OUTAGE
in_outage(c0, a, t) ==
    IF a.is_outage
    THEN LET c == [c0 EXCEPT !.consecutive_recovery_count = 0]
         IN  IF severity_score[a.severity] > c.last_severity_score /\ a.should_notify
             THEN severity_up(c, a, t)
             ELSE [ctx |-> [c EXCEPT !.last_severity_score = severity_score[a.severity]],
                   decision |-> NoDecision]
    ELSE enter_monitoring(c0)

\* monitor_task from the inconclusive-analysis guard to the end of the state
\* machine: context c, analysis a, now_ts t
step(c, a, t) ==
    IF inconclusive[a.severity]
    THEN [ctx |-> c, decision |-> NoDecision]
    ELSE LET c1 == update_streaks(c, a)
         IN  IF c1.state \in {NORMAL, SUSPECTED, MONITORING}
             THEN IF a.is_outage THEN detect_outage(c1, a, t) ELSE observe_normal(c1, a, t)
             ELSE in_outage(c1, a, t)

\* the counters of r stay within the bounds of the model
WithinBounds(r) ==
    /\ r.ctx.consecutive_outage_count <= MaxCount
    /\ r.ctx.notify_streak <= MaxStreak
    /\ r.ctx.degraded_streak <= MaxStreak
    /\ r.ctx.normal_streak <= MaxStreak

\* broadcast_message: the channels the message reaches, when sending raises for
\* the channels of failing (the exception is caught and logged per channel)
broadcast_message(target_channels, failing) == target_channels \ failing

\* what a run that started in the context c with the judgment a and ended
\* with r has held back, h being what was held back before
follow_incident(h, c, a, r) ==
    IF inconclusive[a.severity]
    THEN [h EXCEPT !.unannounced = FALSE, !.caught_up = FALSE]
    ELSE [caught_up |-> h.unannounced /\ r.decision.send_alert,
          unannounced |->
              /\ ~r.decision.send_alert
              /\ r.ctx.state = OUTAGE
              /\ \/ c.state \in {NORMAL, SUSPECTED}
                 \/ /\ h.unannounced
                    /\ a.is_outage
                    /\ a.should_notify
                    /\ severity_score[a.severity] >= 1,
          held_score |->
              IF r.decision.send_alert \/ r.ctx.state # OUTAGE THEN 0
              ELSE IF /\ c.state = OUTAGE
                      /\ a.is_outage
                      /\ a.should_notify
                      /\ severity_score[a.severity] > c.last_severity_score
                   THEN severity_score[a.severity]
                   ELSE h.held_score,
          dropped |->
              IF r.decision.send_alert THEN FALSE
              ELSE IF /\ c.state = MONITORING
                      /\ r.ctx.state = NORMAL
                      /\ c.notification_sent
                      /\ ~r.decision.send_recovery
                   THEN TRUE
                   ELSE h.dropped]

\* a notification that fails for every target channel is forgotten together
\* with the time recorded for it
send_notifications_forgetful(r, target_channels, failing) ==
    IF ~(r.decision.send_alert \/ r.decision.send_recovery)
    THEN [ctx |-> r.ctx, delivered |-> {}]
    ELSE IF broadcast_message(target_channels, failing) = {}
         THEN [ctx |-> [r.ctx EXCEPT !.last_alert_timestamp = 0,
                                     !.last_recovery_timestamp = 0],
               delivered |-> {}]
         ELSE [ctx |-> r.ctx, delivered |-> broadcast_message(target_channels, failing)]

\* monitor_task: the notifications decided by the state machine are sent; the
\* context stays as the state machine left it
send_notifications(r, target_channels, failing) ==
    IF ~(r.decision.send_alert \/ r.decision.send_recovery)
    THEN [ctx |-> r.ctx, delivered |-> {}]
    ELSE [ctx |-> r.ctx, delivered |-> broadcast_message(target_channels, failing)]

\* one run of the periodic monitor_task, d seconds after the previous one,
\* with the investigation report and the judgment a
monitor_task(report, a, d) ==
    \E t \in {now_ts + d} :
        /\ now_ts' = t
        /\ prev_state' = state
        /\ response' = NoResponse
        /\ UNCHANGED <<channels, classified, registry, loop, mentions, chat_sessions>>
        /\ IF channels = {}
           THEN /\ returned_at' = AT_NO_CHANNELS
                /\ send_alert' = FALSE
                /\ send_recovery' = FALSE
                /\ alert_title' = TITLE_DETECTED
                /\ delivered' = {}
                /\ UNCHANGED <<ctx, alert_times, recovery_times, clean_run,
                               latest_investigation_report>>
           ELSE \E r \in {step(Context, a, t)} :
                /\ WithinBounds(r)
                /\ latest_investigation_report' = report
                /\ returned_at' = IF inconclusive[a.severity] THEN AT_INCONCLUSIVE ELSE AT_END
                /\ send_alert' = r.decision.send_alert
                /\ send_recovery' = r.decision.send_recovery
                /\ alert_title' = r.decision.alert_title
                /\ alert_times' = IF r.decision.send_alert
                                  THEN alert_times \cup {t} ELSE alert_times
                /\ recovery_times' = IF r.decision.send_recovery
                                     THEN recovery_times \cup {t} ELSE recovery_times
                /\ clean_run' = IF inconclusive[a.severity] THEN clean_run
                                ELSE IF a.is_outage THEN 0
                                ELSE IF clean_run < RECOVERY_CONFIRM_COUNT
                                     THEN clean_run + 1 ELSE clean_run
                /\ \E failing \in (IF r.decision.send_alert \/ r.decision.send_recovery
                                    THEN SUBSET channels ELSE {{}}) :
                      \E n \in {send_notifications(r, channels, failing)} :
                          /\ delivered' = n.delivered
                          /\ state' = n.ctx.state
                          /\ consecutive_outage_count' = n.ctx.consecutive_outage_count
                          /\ consecutive_recovery_count' = n.ctx.consecutive_recovery_count
                          /\ notify_streak' = n.ctx.notify_streak
                          /\ degraded_streak' = n.ctx.degraded_streak
                          /\ normal_streak' = n.ctx.normal_streak
                          /\ last_alert_timestamp' = n.ctx.last_alert_timestamp
                          /\ last_recovery_timestamp' = n.ctx.last_recovery_timestamp
                          /\ last_severity' = n.ctx.last_severity
                          /\ last_severity_score' = n.ctx.last_severity_score
                          /\ notification_sent' = n.ctx.notification_sent

\* one run of monitor_task in which response.parsed is None: reading
\* analysis.severity in _is_analysis_inconclusive raises, before anything of
\* the context is written
monitor_task_unparsed(report, d) ==
    \E t \in {now_ts + d} :
        /\ now_ts' = t
        /\ prev_state' = state
        /\ returned_at' = IF channels = {} THEN AT_NO_CHANNELS ELSE AT_RAISED
        /\ send_alert' = FALSE
        /\ send_recovery' = FALSE
        /\ alert_title' = TITLE_DETECTED
        /\ delivered' = {}
        /\ latest_investigation_report' =
               IF channels = {} THEN latest_investigation_report ELSE report
        /\ response' = NoResponse
        /\ UNCHANGED <<ctx, channels, classified, registry, loop, alert_times,
                       recovery_times, clean_run, mentions, chat_sessions>>

\* ChannelManager.add_channel (register_notify)
add_channel(channel_id) ==
    /\ channel_id \notin channels
    /\ channels' = channels \cup {channel_id}
    /\ UNCHANGED <<ctx, tick, classified, registry, loop, incident, bot>>

\* ChannelManager.remove_channel (unregister_notify)
remove_channel(channel_id) ==
    /\ channel_id \in channels
    /\ channels' = channels \ {channel_id}
    /\ UNCHANGED <<ctx, tick, classified, registry, loop, incident, bot>>

\* the runs of monitor_task and the changes of the channel list; every
\* investigation returns its text, and what the runs hold back is not followed
Next ==
    \/ \E a \in Judgments, d \in Deltas :
           /\ now_ts + d <= MaxNow
           /\ monitor_task(REPORT_TEXT, a, d)
           /\ UNCHANGED incident
    \/ \E d \in Deltas :
           /\ now_ts + d <= MaxNow
           /\ monitor_task_unparsed(REPORT_TEXT, d)
           /\ UNCHANGED incident
    \/ \E channel_id \in ChannelIds : add_channel(channel_id)
    \/ \E channel_id \in ChannelIds : remove_channel(channel_id)

Spec == Init /\ [][Next]_vars

\* the same program followed from a warm start up to MaxNowWarm
NextWarm ==
    \/ \E a \in Judgments, d \in Deltas :
           /\ now_ts + d <= MaxNowWarm
           /\ monitor_task(REPORT_TEXT, a, d)
           /\ UNCHANGED incident
    \/ \E d \in Deltas :
           /\ now_ts + d <= MaxNowWarm
           /\ monitor_task_unparsed(REPORT_TEXT, d)
           /\ UNCHANGED incident
    \/ \E channel_id \in ChannelIds : add_channel(channel_id)
    \/ \E channel_id \in ChannelIds : remove_channel(channel_id)

SpecWarm == InitWarm /\ [][NextWarm]_vars

(***************************************************************************)
(* The commands of the bot and its chat replies, run between the runs of   *)
(* monitor_task.                                                           *)
(***************************************************************************)
\* with the commands the clock is followed up to MaxNowCommands
MaxNowCommands == 2700

\* the judgments a manual diagnosis is shown: the judgment failed, or an
\* official major outage
ManualJudgments ==
    {FailedAnalysis,
     [is_outage |-> TRUE, is_official |-> TRUE, severity |-> SEV_MAJOR_OUTAGE,
      should_notify |-> TRUE]}

\* ChannelManager._get_guild_mentions: the settings of guild_id are created
\* when they are missing
get_guild_mentions(m, guild_id) ==
    IF guild_id \in DOMAIN m THEN m
    ELSE [g \in DOMAIN m \cup {guild_id} |->
             IF g = guild_id THEN [roles |-> {}, users |-> {}] ELSE m[g]]

\* ChannelManager.add_role_mention: the new settings and the value returned
add_role_mention(m0, guild_id, role_id) ==
    LET m == get_guild_mentions(m0, guild_id)
    IN  IF role_id \in m[guild_id].roles
        THEN [mentions |-> m, result |-> FALSE]
        ELSE [mentions |-> [m EXCEPT ![guild_id].roles = @ \cup {role_id}],
              result |-> TRUE]

\* ChannelManager.remove_role_mention
remove_role_mention(m0, guild_id, role_id) ==
    LET m == get_guild_mentions(m0, guild_id)
    IN  IF role_id \notin m[guild_id].roles
        THEN [mentions |-> m, result |-> FALSE]
        ELSE [mentions |-> [m EXCEPT ![guild_id].roles = @ \ {role_id}],
              result |-> TRUE]

\* ChannelManager.add_user_mention
add_user_mention(m0, guild_id, user_id) ==
    LET m == get_guild_mentions(m0, guild_id)
    IN  IF user_id \in m[guild_id].users
        THEN [mentions |-> m, result |-> FALSE]
        ELSE [mentions |-> [m EXCEPT ![guild_id].users = @ \cup {user_id}],
              result |-> TRUE]

\* ChannelManager.remove_user_mention
remove_user_mention(m0, guild_id, user_id) ==
    LET m == get_guild_mentions(m0, guild_id)
    IN  IF user_id \notin m[guild_id].users
        THEN [mentions |-> m, result |-> FALSE]
        ELSE [mentions |-> [m EXCEPT ![guild_id].users = @ \ {user_id}],
              result |-> TRUE]

\* a command that changes the mention settings and answers with the result
mention_command(handler, r) ==
    /\ mentions' = r.mentions
    /\ response' = [handler |-> handler, report |-> REPORT_NONE, ok |-> r.result]
    /\ UNCHANGED <<ctx, channels, tick, classified, registry, loop, incident,
                   latest_investigation_report, chat_sessions>>

\* /add_notify_role
add_notify_role(guild_id, role_id) ==
    mention_command("add_notify_role", add_role_mention(mentions, guild_id, role_id))

\* /remove_notify_role
remove_notify_role(guild_id, role_id) ==
    mention_command("remove_notify_role", remove_role_mention(mentions, guild_id, role_id))

\* /subscribe_mention
subscribe_mention(guild_id, user_id) ==
    mention_command("subscribe_mention", add_user_mention(mentions, guild_id, user_id))

\* /unsubscribe_mention
unsubscribe_mention(guild_id, user_id) ==
    mention_command("unsubscribe_mention", remove_user_mention(mentions, guild_id, user_id))

\* /register_notify: ChannelManager.add_channel and the answer
register_notify(channel_id) ==
    /\ channels' = channels \cup {channel_id}
    /\ response' = [handler |-> "register_notify", report |-> REPORT_NONE,
                    ok |-> channel_id \notin channels]
    /\ UNCHANGED <<ctx, tick, classified, registry, loop, incident,
                   latest_investigation_report, mentions, chat_sessions>>

\* /unregister_notify: ChannelManager.remove_channel and the answer
unregister_notify(channel_id) ==
    /\ channels' = channels \ {channel_id}
    /\ response' = [handler |-> "unregister_notify", report |-> REPORT_NONE,
                    ok |-> channel_id \in channels]
    /\ UNCHANGED <<ctx, tick, classified, registry, loop, incident,
                   latest_investigation_report, mentions, chat_sessions>>

\* run_realtime_diagnosis_test (/vrc_status and /test_real): an investigation
\* and its judgment a, shown to the responder
run_realtime_diagnosis_test(raised, a) ==
    \E report \in {investigate_server_status(raised)} :
        /\ latest_investigation_report' = report
        /\ response' = [handler |-> "run_realtime_diagnosis_test", report |-> report,
                        ok |-> TRUE]
        /\ UNCHANGED <<ctx, channels, tick, classified, registry, loop, incident,
                       mentions, chat_sessions>>

\* the judgment of the fake report is fed to the state machine
run_fake_diagnosis_test_fed(a) ==
    \E r \in {step(Context, a, now_ts)} :
        /\ state' = r.ctx.state
        /\ consecutive_outage_count' = r.ctx.consecutive_outage_count
        /\ consecutive_recovery_count' = r.ctx.consecutive_recovery_count
        /\ last_severity' = r.ctx.last_severity
        /\ last_severity_score' = r.ctx.last_severity_score
        /\ response' = [handler |-> "run_fake_diagnosis_test", report |-> FAKE_REPORT,
                        ok |-> TRUE]
        /\ UNCHANGED <<notify_streak, degraded_streak, normal_streak,
                       last_alert_timestamp, last_recovery_timestamp, notification_sent,
                       channels, tick, classified, registry, loop, incident,
                       latest_investigation_report, mentions, chat_sessions>>

\* run_fake_diagnosis_test (/test_fake): the judgment a of the fake report,
\* shown to the responder
run_fake_diagnosis_test(a) ==
    /\ response' = [handler |-> "run_fake_diagnosis_test", report |-> FAKE_REPORT,
                    ok |-> TRUE]
    /\ UNCHANGED <<ctx, channels, tick, classified, registry, loop, incident,
                   latest_investigation_report, mentions, chat_sessions>>

\* /status_info: the context and the remaining cooldowns are displayed
status_info ==
    /\ response' = [handler |-> "status_info", report |-> REPORT_NONE, ok |-> TRUE]
    /\ UNCHANGED <<ctx, channels, tick, classified, registry, loop, incident,
                   latest_investigation_report, mentions, chat_sessions>>

\* on_message in channel_id; addressed: the bot is mentioned, replied to, or
\* written to directly.  The reply is generated from the text and the latest
\* investigation report, in the chat session of the channel.
on_message(channel_id, addressed) ==
    /\ IF addressed
       THEN /\ chat_sessions' = chat_sessions \cup {channel_id}
            /\ response' = [handler |-> "on_message",
                            report |-> latest_investigation_report, ok |-> TRUE]
       ELSE /\ response' = NoResponse
            /\ UNCHANGED chat_sessions
    /\ UNCHANGED <<ctx, channels, tick, classified, registry, loop, incident,
                   latest_investigation_report, mentions>>

\* the bot with its commands, followed from a warm start up to MaxNowCommands;
\* an investigation returns its text or the text of its failure
NextCommands ==
    \/ \E report \in InvestigationReports, a \in Judgments, d \in Deltas :
           /\ now_ts + d <= MaxNowCommands
           /\ monitor_task(report, a, d)
           /\ UNCHANGED incident
    \/ \E report \in InvestigationReports, d \in Deltas :
           /\ now_ts + d <= MaxNowCommands
           /\ monitor_task_unparsed(report, d)
           /\ UNCHANGED incident
    \/ \E channel_id \in ChannelIds : register_notify(channel_id)
    \/ \E channel_id \in ChannelIds : unregister_notify(channel_id)
    \/ \E guild_id \in GuildIds, role_id \in RoleIds : add_notify_role(guild_id, role_id)
    \/ \E guild_id \in GuildIds, role_id \in RoleIds : remove_notify_role(guild_id, role_id)
    \/ \E guild_id \in GuildIds, user_id \in UserIds : subscribe_mention(guild_id, user_id)
    \/ \E guild_id \in GuildIds, user_id \in UserIds : unsubscribe_mention(guild_id, user_id)
    \/ \E raised \in BOOLEAN, a \in ManualJudgments : run_realtime_diagnosis_test(raised, a)
    \/ \E a \in ManualJudgments : run_fake_diagnosis_test(a)
    \/ status_info
    \/ \E channel_id \in ChannelIds, addressed \in BOOLEAN : on_message(channel_id, addressed)

SpecCommands == InitWarm /\ [][NextCommands]_vars

(***************************************************************************)
(* The runs of monitor_task followed together with what they hold back.    *)
(***************************************************************************)
\* followed this way the clock goes from a warm start up to MaxNowIncident
MaxNowIncident == 5100

\* the judgments of these runs: the labels of the scores 0, 1, 2 and 3 and
\* the marker
IncidentJudgments ==
    {a \in Judgments :
        a.severity \in {SEV_NASHI, SEV_KEIBI, SEV_FUANTEI, SEV_SETSUZOKUFUKA, SEV_UNKNOWN}}

\* a run of monitor_task, and what it adds to what has been held back; a run
\* without a registered channel sees no judgment
monitor_task_followed(report, a, d) ==
    /\ monitor_task(report, a, d)
    /\ incident' = IF channels = {} THEN [incident EXCEPT !.caught_up = FALSE]
                   ELSE follow_incident(incident, Context, a, step(Context, a, now_ts + d))

\* a run of monitor_task whose answer is unparsed gets no conclusive judgment
monitor_task_unparsed_followed(report, d) ==
    /\ monitor_task_unparsed(report, d)
    /\ incident' = IF channels = {} THEN [incident EXCEPT !.caught_up = FALSE]
                   ELSE [incident EXCEPT !.unannounced = FALSE, !.caught_up = FALSE]

NextIncident ==
    \/ \E a \in IncidentJudgments, d \in Deltas :
           /\ now_ts + d <= MaxNowIncident
           /\ monitor_task_followed(REPORT_TEXT, a, d)
    \/ \E d \in Deltas :
           /\ now_ts + d <= MaxNowIncident
           /\ monitor_task_unparsed_followed(REPORT_TEXT, d)
    \/ \E channel_id \in ChannelIds : add_channel(channel_id)
    \/ \E channel_id \in ChannelIds : remove_channel(channel_id)

SpecIncident == InitWarm /\ [][NextIncident]_vars

(***************************************************************************)
(* monitor_task as the event loop runs it: the coroutine gives up control  *)
(* at each await, and /status_info and the registry commands run in        *)
(* between.                                                                *)
(***************************************************************************)
\* run this way the clock is followed up to MaxNowInterleaved
MaxNowInterleaved == 3300

\* only the state is written before monitor_task gives up control
context_at_yield_state_only(c, r) ==
    [c EXCEPT !.state = r.ctx.state]

\* the context when monitor_task gives up control after the judgment: there
\* is no await between the guard and update_presence_from_state, so all the
\* assignments of the state machine have been made
context_at_yield(c, r) ==
    r.ctx

\* monitor_task is called by the loop, d seconds after the previous run, and
\* runs up to its first await
monitor_task_called(d) ==
    /\ pc = WAIT_NONE
    /\ now_ts' = now_ts + d
    /\ prev_state' = state
    /\ IF channels = {}
       THEN /\ pc' = WAIT_NONE
            /\ returned_at' = AT_NO_CHANNELS
            /\ send_alert' = FALSE
            /\ send_recovery' = FALSE
            /\ alert_title' = TITLE_DETECTED
            /\ delivered' = {}
       ELSE /\ pc' = WAIT_INVESTIGATION
            /\ UNCHANGED <<returned_at, send_alert, send_recovery, alert_title, delivered>>
    /\ UNCHANGED <<ctx, channels, alert_times, recovery_times, clean_run, incident,
                   classified, bot, registry, inspected>>

\* the investigation returns its report
monitor_task_investigated(report) ==
    /\ pc = WAIT_INVESTIGATION
    /\ pc' = WAIT_JUDGMENT
    /\ latest_investigation_report' = report
    /\ UNCHANGED <<ctx, channels, tick, incident, classified, mentions, chat_sessions, response,
                   registry, inspected>>

\* the judgment a arrives: the guard and the state machine run without giving
\* up control
monitor_task_judged(a) ==
    /\ pc = WAIT_JUDGMENT
    /\ \E r \in {step(Context, a, now_ts)} :
          /\ WithinBounds(r)
          /\ pc' = IF inconclusive[a.severity] THEN WAIT_NONE ELSE WAIT_PRESENCE
          /\ returned_at' = IF inconclusive[a.severity] THEN AT_INCONCLUSIVE ELSE returned_at
          /\ send_alert' = r.decision.send_alert
          /\ send_recovery' = r.decision.send_recovery
          /\ alert_title' = r.decision.alert_title
          /\ alert_times' = IF r.decision.send_alert
                            THEN alert_times \cup {now_ts} ELSE alert_times
          /\ recovery_times' = IF r.decision.send_recovery
                               THEN recovery_times \cup {now_ts} ELSE recovery_times
          /\ clean_run' = IF inconclusive[a.severity] THEN clean_run
                          ELSE IF a.is_outage THEN 0
                          ELSE IF clean_run < RECOVERY_CONFIRM_COUNT
                               THEN clean_run + 1 ELSE clean_run
          /\ delivered' = {}
          /\ \E n \in {context_at_yield(Context, r)} :
                /\ state' = n.state
                /\ consecutive_outage_count' = n.consecutive_outage_count
                /\ consecutive_recovery_count' = n.consecutive_recovery_count
                /\ notify_streak' = n.notify_streak
                /\ degraded_streak' = n.degraded_streak
                /\ normal_streak' = n.normal_streak
                /\ last_alert_timestamp' = n.last_alert_timestamp
                /\ last_recovery_timestamp' = n.last_recovery_timestamp
                /\ last_severity' = n.last_severity
                /\ last_severity_score' = n.last_severity_score
                /\ notification_sent' = n.notification_sent
    /\ UNCHANGED <<channels, now_ts, prev_state, incident, classified, bot, registry,
                   inspected>>

\* response.parsed is None: the guard raises and the run ends
monitor_task_judged_unparsed ==
    /\ pc = WAIT_JUDGMENT
    /\ pc' = WAIT_NONE
    /\ returned_at' = AT_RAISED
    /\ send_alert' = FALSE
    /\ send_recovery' = FALSE
    /\ alert_title' = TITLE_DETECTED
    /\ delivered' = {}
    /\ UNCHANGED <<ctx, channels, now_ts, prev_state, alert_times, recovery_times,
                   clean_run, incident, classified, bot, registry, inspected>>

\* the presence has been updated; the run goes on to its notifications, or
\* ends when there is none
monitor_task_presented ==
    /\ pc = WAIT_PRESENCE
    /\ IF send_alert \/ send_recovery
       THEN pc' = WAIT_BROADCAST /\ UNCHANGED returned_at
       ELSE pc' = WAIT_NONE /\ returned_at' = AT_END
    /\ UNCHANGED <<ctx, channels, now_ts, prev_state, send_alert, send_recovery,
                   alert_title, alert_times, recovery_times, delivered, clean_run, incident,
                   classified, bot, registry, inspected>>

\* broadcast_message has gone through the channels registered by then
monitor_task_broadcast(failing) ==
    /\ pc = WAIT_BROADCAST
    /\ pc' = WAIT_NONE
    /\ returned_at' = AT_END
    /\ delivered' = broadcast_message(channels, failing)
    /\ UNCHANGED <<ctx, channels, now_ts, prev_state, send_alert, send_recovery,
                   alert_title, alert_times, recovery_times, clean_run, incident,
                   classified, bot, registry, inspected>>

\* /status_info: the fields of the context are read one after the other,
\* without an await, into the embed
status_info_embed ==
    /\ inspected' = [read |-> TRUE, at |-> pc, state |-> state,
                     consecutive_outage_count |-> consecutive_outage_count,
                     consecutive_recovery_count |-> consecutive_recovery_count,
                     notification_sent |-> notification_sent]
    /\ UNCHANGED <<ctx, channels, tick, incident, classified, bot, registry, pc>>

\* the judgments of the interleaved runs: the labels of the scores 0, 2 and 3
\* and the marker
InterleavedJudgments ==
    {a \in Judgments :
        a.severity \in {SEV_NASHI, SEV_FUANTEI, SEV_SETSUZOKUFUKA, SEV_UNKNOWN}}

NextInterleaved ==
    \/ \E d \in Deltas : now_ts + d <= MaxNowInterleaved /\ monitor_task_called(d)
    \/ \E report \in InvestigationReports : monitor_task_investigated(report)
    \/ \E a \in InterleavedJudgments : monitor_task_judged(a)
    \/ monitor_task_judged_unparsed
    \/ monitor_task_presented
    \/ \E failing \in SUBSET channels : monitor_task_broadcast(failing)
    \/ status_info_embed
    \/ \E channel_id \in ChannelIds : add_channel(channel_id)
    \/ \E channel_id \in ChannelIds : remove_channel(channel_id)

SpecInterleaved == InitWarm /\ [][NextInterleaved]_vars

(***************************************************************************)
(* ChannelManager.add_channel and remove_channel on their own, on the list *)
(* data["channels"], starting from the empty list.                         *)
(***************************************************************************)
\* the channel ids the calls are made with
RegistryIds == {1, 2, 3}

\* the elements of a list
Range(q) == {q[i] : i \in DOMAIN q}

\* list(channels): the elements of a set in some order
list(S) == {q \in [1..Cardinality(S) -> S] : Range(q) = S}

\* the id is appended to the stored list without looking at the list
ChannelManager_add_channel_append(data_channels, channel_id) ==
    {[channels |-> Append(data_channels, channel_id), result |-> TRUE]}

\* ChannelManager.add_channel: the lists data["channels"] can be afterwards,
\* each with the value returned
ChannelManager_add_channel(data_channels, channel_id) ==
    LET set_channels == Range(data_channels)
    IN  IF channel_id \in set_channels
        THEN {[channels |-> data_channels, result |-> FALSE]}
        ELSE {[channels |-> q, result |-> TRUE] :
                 q \in list(set_channels \cup {channel_id})}

\* ChannelManager.remove_channel
ChannelManager_remove_channel(data_channels, channel_id) ==
    LET set_channels == Range(data_channels)
    IN  IF channel_id \notin set_channels
        THEN {[channels |-> data_channels, result |-> FALSE]}
        ELSE {[channels |-> q, result |-> TRUE] :
                 q \in list(set_channels \ {channel_id})}

\* a call that leaves the list r.channels and returns r.result
registry_call(call, channel_id, r) ==
    /\ registry' = [channels |-> r.channels, call |-> call, channel_id |-> channel_id,
                    result |-> r.result, before |-> registry.channels]
    /\ channels' = Range(r.channels)
    /\ UNCHANGED <<ctx, tick, classified, bot, loop, incident>>

\* one call channel_manager.add_channel(channel_id)
call_add_channel(channel_id) ==
    \E r \in ChannelManager_add_channel(registry.channels, channel_id) :
        registry_call("add_channel", channel_id, r)

\* one call channel_manager.remove_channel(channel_id)
call_remove_channel(channel_id) ==
    \E r \in ChannelManager_remove_channel(registry.channels, channel_id) :
        registry_call("remove_channel", channel_id, r)

InitRegistry ==
    /\ Constructed
    /\ channels = {}
    /\ now_ts = 0
    /\ classified = NotClassified

NextRegistry ==
    \/ \E channel_id \in RegistryIds : call_add_channel(channel_id)
    \/ \E channel_id \in RegistryIds : call_remove_channel(channel_id)

SpecRegistry == InitRegistry /\ [][NextRegistry]_vars

(***************************************************************************)
(* get_severity_score on its own: labels put together from the keywords,   *)
(* in several spellings, and from text that is no keyword.                 *)
(***************************************************************************)
\* a label is made of at most MaxFragments fragments
MaxFragments == 2

Fragments ==
    {KW_KOUSHIKI, KW_SETSUZOKUFUKA, KW_HAIRENAI, KW_FUANTEI, KW_OMOI, KW_KEIBI, KW_NASHI,
     <<"O", "f", "f", "i", "c", "i", "a", "l">>,
     <<"M", "A", "J", "O", "R">>,
     <<"C", "a", "n", "n", "o", "t", " ", "C", "o", "n", "n", "e", "c", "t">>,
     <<"c", "a", "n", "n", "o", "t">>,
     <<"D", "e", "g", "r", "a", "d", "e", "d">>,
     <<"u", "n", "S", "T", "A", "B", "L", "E">>,
     <<"M", "i", "n", "o", "r">>,
     <<"N", "o", "r", "m", "a", "l">>,
     <<"?">>,
     <<" ">>}

RECURSIVE Phrases(_)
Phrases(n) ==
    IF n = 0 THEN {<<>>}
    ELSE LET shorter == Phrases(n - 1)
         IN  shorter \cup {p \o f : p \in shorter, f \in Fragments}

ScoreLabels == Phrases(MaxFragments)

InitScore ==
    /\ Constructed
    /\ now_ts = 0
    /\ \E l \in ScoreLabels :
          classified = [severity_str |-> l, returned |-> FALSE, score |-> 0]

\* one call status_context.get_severity_score(severity_str)
call_get_severity_score ==
    /\ ~classified.returned
    /\ classified' = [classified EXCEPT
                          !.returned = TRUE,
                          !.score = get_severity_score(classified.severity_str)]
    /\ UNCHANGED <<ctx, channels, tick, bot, registry, loop, incident>>

NextScore == call_get_severity_score

SpecScore == InitScore /\ [][NextScore]_vars

TypeOK ==
    /\ state \in MonitorState
    /\ consecutive_outage_count \in 0..MaxCount
    /\ consecutive_recovery_count \in 0..RECOVERY_CONFIRM_COUNT
    /\ notify_streak \in 0..MaxStreak
    /\ degraded_streak \in 0..MaxStreak
    /\ normal_streak \in 0..MaxStreak
    /\ last_alert_timestamp \in 0..MaxNow
    /\ last_recovery_timestamp \in 0..MaxNow
    /\ last_severity \in SeverityLabels
    /\ last_severity_score \in 0..4
    /\ notification_sent \in BOOLEAN
    /\ channels \subseteq ChannelIds
    /\ now_ts \in 0..MaxNow
    /\ prev_state \in MonitorState
    /\ returned_at \in ReturnPoints
    /\ send_alert \in BOOLEAN
    /\ send_recovery \in BOOLEAN
    /\ alert_title \in AlertTitles
    /\ alert_times \subseteq 0..MaxNow
    /\ recovery_times \subseteq 0..MaxNow
    /\ classified = NotClassified
    /\ delivered \subseteq ChannelIds
    /\ clean_run \in 0..RECOVERY_CONFIRM_COUNT
    /\ incident = NoIncident
    /\ latest_investigation_report \in {REPORT_NONE} \cup InvestigationReports
    /\ mentions = NoMentions
    /\ chat_sessions = {}
    /\ response = NoResponse
    /\ registry = NoRegistryCall
    /\ pc = WAIT_NONE
    /\ inspected = NoInspection

(***************************************************************************)
(* Vocabulary of the properties.                                           *)
(***************************************************************************)
\* the labels that carry the indeterminate marker
UnknownMarkers == {SEV_UNKNOWN, SEV_UNKNOWN_PADDED}

\* the labels that are not the marker and match no keyword
UnrecognizedLabels == {SEV_EMPTY, SEV_UNKNOWN_CAUSE}

\* the judgments that carry the marker, and the conclusive ones
MarkedAnalyses == {a \in OutageAnalysis : a.severity \in UnknownMarkers}
ConclusiveAnalyses == OutageAnalysis \ MarkedAnalyses

\* conclusive judgments by kind
OutageAnalyses == {a \in ConclusiveAnalyses : a.is_outage}
CleanAnalyses == {a \in ConclusiveAnalyses : ~a.is_outage}
\* is_outage, not official, score below CRITICAL_SEVERITY
UnconfirmedAnalyses ==
    {a \in OutageAnalyses : ~a.is_official /\ severity_score[a.severity] < CRITICAL_SEVERITY}
\* is_outage, official or score at least CRITICAL_SEVERITY
ImmediateAnalyses ==
    {a \in OutageAnalyses : a.is_official \/ severity_score[a.severity] >= CRITICAL_SEVERITY}
\* {is_outage: false, severity: "none"}
NoneAnalyses == {a \in CleanAnalyses : a.severity = SEV_NASHI}

\* what holds of the state, the two counts and notification_sent between runs
\* of monitor_task, of the record c that has these fields
ContextInvariants(c) ==
    /\ c.state = NORMAL =>
          /\ c.consecutive_outage_count = 0
          /\ c.consecutive_recovery_count = 0
          /\ ~c.notification_sent
    /\ c.state = SUSPECTED =>
          /\ c.consecutive_outage_count = 1
          /\ c.consecutive_recovery_count = 0
          /\ ~c.notification_sent
    /\ c.state = OUTAGE =>
          /\ c.consecutive_outage_count >= 1
          /\ c.consecutive_recovery_count = 0
    /\ c.state = MONITORING =>
          /\ c.consecutive_outage_count >= 1
          /\ c.consecutive_recovery_count >= 1
          /\ c.consecutive_recovery_count < RECOVERY_CONFIRM_COUNT

\* the clock readings the next run of monitor_task can see
NextTimes == {now_ts + d : d \in Deltas}

\* r carries no notification
Silent(r) == ~r.decision.send_alert /\ ~r.decision.send_recovery

(***************************************************************************)
(* C1  Alert cooldown law: any two runs of monitor_task that both decide   *)
(* send_alert have clock readings at least ALERT_COOLDOWN_SEC apart,       *)
(* whatever kind of alert each of them is.                                 *)
(***************************************************************************)
AlertCooldownLaw ==
    \A t1 \in alert_times : \A t2 \in alert_times :
        t1 < t2 => t2 - t1 >= ALERT_COOLDOWN_SEC

\* a second alert, sent on the return from MONITORING to OUTAGE
SecondAlertOnReentry ==
    /\ Cardinality(alert_times) >= 2
    /\ send_alert
    /\ prev_state = MONITORING
    /\ state = OUTAGE

(***************************************************************************)
(* C2  Uncertainty law: in every reachable context, a judgment whose       *)
(* severity is the "unknown" marker, with any is_outage, is_official and   *)
(* should_notify, leaves every field of the context as it was and decides  *)
(* neither an alert nor a recovery.                                        *)
(***************************************************************************)
UncertaintyLaw ==
    /\ \A a \in MarkedAnalyses : \A t \in NextTimes :
          \A r \in {step(Context, a, t)} :
              /\ r.ctx = Context
              /\ Silent(r)
    /\ returned_at = AT_INCONCLUSIVE => ~send_alert /\ ~send_recovery

\* a run of monitor_task returned at the guard during an outage
InconclusiveInOutage ==
    /\ returned_at = AT_INCONCLUSIVE
    /\ state = OUTAGE
    /\ prev_state = OUTAGE

(***************************************************************************)
(* C3  In every reachable context both streak counters are non-negative,   *)
(* and in NORMAL the outage count is 0 and notification_sent is false.      *)
(***************************************************************************)
NormalImpliesReset ==
    /\ consecutive_outage_count >= 0
    /\ consecutive_recovery_count >= 0
    /\ state = NORMAL => consecutive_outage_count = 0 /\ notification_sent = FALSE

\* back in NORMAL after an incident that was notified
NormalAfterIncident ==
    /\ state = NORMAL
    /\ prev_state = MONITORING
    /\ send_recovery

(***************************************************************************)
(* C4  In every reachable context, an outage count of 0 together with      *)
(* notification_sent false implies the state NORMAL: SUSPECTED, OUTAGE and  *)
(* MONITORING always have a count of at least 1 or notification_sent.       *)
(***************************************************************************)
ResetImpliesNormal ==
    (consecutive_outage_count = 0 /\ notification_sent = FALSE) => state = NORMAL

\* an outage whose first alert the cooldown held back
OutageNeverNotified ==
    /\ state = OUTAGE
    /\ notification_sent = FALSE
    /\ consecutive_outage_count >= 1

(***************************************************************************)
(* C5 as stated: in NORMAL, a run of monitor_task with the judgment         *)
(* {is_outage: false, severity "none"} leaves the whole context unchanged.  *)
(***************************************************************************)
NoneInNormalChangesNothing ==
    [][(state = NORMAL /\ channels # {}
          /\ \E a \in NoneAnalyses : \E d \in Deltas :
                 monitor_task(REPORT_TEXT, a, d))
       => UNCHANGED ctx]_vars

(***************************************************************************)
(* C5 amended: in NORMAL, the judgment {is_outage: false, severity "none"}  *)
(* leaves the state, the outage and recovery counts, both cooldown          *)
(* timestamps, the last severity and notification_sent unchanged and        *)
(* decides no notification; normal_streak grows by one, degraded_streak     *)
(* becomes 0 and notify_streak grows by one with should_notify and becomes  *)
(* 0 without.                                                               *)
(***************************************************************************)
NoneInNormalOnlyCountsStreaks ==
    state = NORMAL =>
        \A a \in NoneAnalyses : \A t \in NextTimes :
            \A r \in {step(Context, a, t)} :
                /\ r.ctx = [Context EXCEPT !.normal_streak = normal_streak + 1,
                                           !.degraded_streak = 0,
                                           !.notify_streak = IF a.should_notify
                                                             THEN notify_streak + 1 ELSE 0]
                /\ Silent(r)

\* NORMAL after two normal judgments in a row
TwiceNormal ==
    /\ state = NORMAL
    /\ prev_state = NORMAL
    /\ returned_at = AT_END
    /\ normal_streak >= 2

(***************************************************************************)
(* C6  Two-tick confirmation: in NORMAL, a conclusive outage judgment that  *)
(* is neither official nor critical gives SUSPECTED with an outage count    *)
(* of 1 and no notification; a second judgment of that kind right after it *)
(* gives OUTAGE with a count of 2 and, when the alert cooldown has elapsed  *)
(* at that run, send_alert with the first-detection title.                  *)
(***************************************************************************)
TwoTickConfirmation ==
    state = NORMAL =>
        \A a1 \in UnconfirmedAnalyses : \A d1 \in Deltas :
            \A r1 \in {step(Context, a1, now_ts + d1)} :
                /\ r1.ctx.state = SUSPECTED
                /\ r1.ctx.consecutive_outage_count = 1
                /\ Silent(r1)
                /\ \A a2 \in UnconfirmedAnalyses : \A d2 \in Deltas :
                      \A r2 \in {step(r1.ctx, a2, now_ts + d1 + d2)} :
                          /\ r2.ctx.state = OUTAGE
                          /\ r2.ctx.consecutive_outage_count = 2
                          /\ ~r2.decision.send_recovery
                          /\ (now_ts + d1 + d2 - r1.ctx.last_alert_timestamp
                                 >= ALERT_COOLDOWN_SEC)
                                => /\ r2.decision.send_alert
                                   /\ r2.decision.alert_title = TITLE_DETECTED

\* OUTAGE confirmed by the second of two non-critical judgments, alert sent
ConfirmedBySecondTick ==
    /\ prev_state = SUSPECTED
    /\ state = OUTAGE
    /\ consecutive_outage_count = 2
    /\ send_alert
    /\ alert_title = TITLE_DETECTED
    /\ last_severity_score < CRITICAL_SEVERITY

(***************************************************************************)
(* C7  Immediate confirmation: in NORMAL or SUSPECTED, one conclusive       *)
(* outage judgment that is official or has a score of at least             *)
(* CRITICAL_SEVERITY gives OUTAGE in that run, whatever the outage count,   *)
(* and send_alert when the alert cooldown has elapsed.                      *)
(***************************************************************************)
ImmediateConfirmation ==
    state \in {NORMAL, SUSPECTED} =>
        \A a \in ImmediateAnalyses : \A t \in NextTimes :
            \A r \in {step(Context, a, t)} :
                /\ r.ctx.state = OUTAGE
                /\ (t - last_alert_timestamp >= ALERT_COOLDOWN_SEC) => r.decision.send_alert

\* OUTAGE entered from NORMAL by one judgment, alert sent
ConfirmedByFirstTick ==
    /\ prev_state = NORMAL
    /\ state = OUTAGE
    /\ consecutive_outage_count = 1
    /\ send_alert

(***************************************************************************)
(* C8  Severity escalation: in OUTAGE, a conclusive outage judgment with    *)
(* should_notify and a score above last_severity_score, seen when the alert *)
(* cooldown has elapsed, keeps OUTAGE, records the new score and decides    *)
(* send_alert with the severity-increase title.                             *)
(***************************************************************************)
SeverityEscalation ==
    state = OUTAGE =>
        \A a \in OutageAnalyses : \A t \in NextTimes :
            (/\ a.should_notify
             /\ severity_score[a.severity] > last_severity_score
             /\ t - last_alert_timestamp >= ALERT_COOLDOWN_SEC)
            => \A r \in {step(Context, a, t)} :
                   /\ r.ctx.state = OUTAGE
                   /\ r.ctx.last_severity_score = severity_score[a.severity]
                   /\ r.decision.send_alert
                   /\ r.decision.alert_title = TITLE_SEVERITY_UP

\* a severity-increase alert was sent in OUTAGE
EscalationAlertSent ==
    /\ prev_state = OUTAGE
    /\ state = OUTAGE
    /\ send_alert
    /\ alert_title = TITLE_SEVERITY_UP
    /\ last_severity_score >= 1

SuspicionCleared ==
    state = SUSPECTED =>
        \A a \in CleanAnalyses : \A t \in NextTimes :
            \A r \in {step(Context, a, t)} :
                /\ r.ctx.state = NORMAL
                /\ r.ctx.consecutive_outage_count = 0
                /\ Silent(r)

\* NORMAL reached from SUSPECTED without a notification
SuspicionClearedSilently ==
    /\ prev_state = SUSPECTED
    /\ state = NORMAL
    /\ returned_at = AT_END
    /\ consecutive_outage_count = 0
    /\ ~send_alert
    /\ ~send_recovery

(***************************************************************************)
(* C11  No alert before confirmation: a run of monitor_task that decides   *)
(* send_alert ends in OUTAGE; a run that ends in SUSPECTED, NORMAL or       *)
(* MONITORING never decides send_alert, for any judgment and any cooldown   *)
(* state.                                                                   *)
(***************************************************************************)
NoAlertBeforeConfirmation ==
    /\ send_alert => state = OUTAGE
    /\ state \in {NORMAL, SUSPECTED, MONITORING} => ~send_alert

\* the alert went out in the run that confirmed a suspicion
AlertOnConfirmation ==
    /\ prev_state = SUSPECTED
    /\ state = OUTAGE
    /\ returned_at = AT_END
    /\ send_alert
    /\ last_alert_timestamp = now_ts

(***************************************************************************)
(* C12  Cooldowns never block a transition: for any context and judgment,   *)
(* the state, the outage count and the recovery count after the run are     *)
(* the same whether or not either cooldown has elapsed.  Stated twice: for  *)
(* every context of TimingContexts against the context with the same state  *)
(* and counts that no notification has touched yet, which makes two runs of *)
(* the program that are fed the same judgments at different times pass      *)
(* through the same states; and for every reachable context left by a run   *)
(* that has just notified, where the next run can come before or after the  *)
(* end of the cooldown.                                                     *)
(***************************************************************************)
\* state, outage count and recovery count of a context
core(c) == <<c.state, c.consecutive_outage_count, c.consecutive_recovery_count>>

\* contexts in every state and with every count, each with every combination
\* of what earlier notifications can have left behind
TimingContexts ==
    [state : MonitorState,
     consecutive_outage_count : 0..MaxCount,
     consecutive_recovery_count : 0..RECOVERY_CONFIRM_COUNT,
     notify_streak : {0}, degraded_streak : {0}, normal_streak : {0},
     last_alert_timestamp : {0, ALERT_COOLDOWN_SEC},
     last_recovery_timestamp : {0, RECOVERY_COOLDOWN_SEC},
     last_severity : {SEV_NASHI},
     last_severity_score : 0..4,
     notification_sent : BOOLEAN]

\* clock readings at which the cooldowns of TimingContexts are, and are not,
\* over
TimingReadings == {ALERT_COOLDOWN_SEC, ALERT_COOLDOWN_SEC + RECOVERY_COOLDOWN_SEC}

\* the context with the state and counts of c that no notification has touched
Untouched(c) ==
    [c EXCEPT !.last_alert_timestamp = 0,
              !.last_recovery_timestamp = 0,
              !.last_severity_score = 0,
              !.notification_sent = FALSE]

CoreIgnoresTiming ==
    \A c \in TimingContexts : \A a \in OutageAnalysis :
        \A expected \in {core(step(Untouched(c), a, ALERT_COOLDOWN_SEC).ctx)} :
            \A t \in TimingReadings : core(step(c, a, t).ctx) = expected

CooldownsNeverBlock ==
    /\ CoreIgnoresTiming
    /\ (send_alert \/ send_recovery) =>
          \A c \in {Context} : \A a \in ConclusiveAnalyses :
              \A expected \in {core(step(c, a, now_ts + ALERT_COOLDOWN_SEC).ctx)} :
                  \A t \in NextTimes \ {now_ts + ALERT_COOLDOWN_SEC} :
                      core(step(c, a, t).ctx) = expected

\* OUTAGE was entered while the alert cooldown had not elapsed
OutageEnteredDuringCooldown ==
    /\ prev_state \in {NORMAL, SUSPECTED, MONITORING}
    /\ state = OUTAGE
    /\ returned_at = AT_END
    /\ ~send_alert
    /\ now_ts - last_alert_timestamp < ALERT_COOLDOWN_SEC

(***************************************************************************)
(* C13  Direct re-escalation: in MONITORING, every conclusive outage        *)
(* judgment (official or not, any score) gives OUTAGE in that run with a    *)
(* recovery count of 0; no run goes from MONITORING to SUSPECTED.  (The     *)
(* state machine runs only while a channel is registered.)                  *)
(***************************************************************************)
DirectReEscalation ==
    /\ ~(prev_state = MONITORING /\ state = SUSPECTED)
    /\ (state = MONITORING /\ channels # {}) =>
          \A a \in OutageAnalyses : \A t \in NextTimes :
              \A r \in {step(Context, a, t)} :
                  /\ r.ctx.state = OUTAGE
                  /\ r.ctx.consecutive_recovery_count = 0

\* back in OUTAGE straight from MONITORING
ReEscalated ==
    /\ prev_state = MONITORING
    /\ state = OUTAGE
    /\ returned_at = AT_END
    /\ consecutive_recovery_count = 0
    /\ consecutive_outage_count >= 2

(***************************************************************************)
(* C14  Re-escalation title: in MONITORING, a conclusive outage judgment    *)
(* seen when the alert cooldown has elapsed gives OUTAGE and decides        *)
(* send_alert with the re-escalation title, which is not the title of a     *)
(* first detection.                                                         *)
(***************************************************************************)
ReEscalationTitle ==
    state = MONITORING =>
        \A a \in OutageAnalyses : \A t \in NextTimes :
            (t - last_alert_timestamp >= ALERT_COOLDOWN_SEC)
            => \A r \in {step(Context, a, t)} :
                   /\ r.ctx.state = OUTAGE
                   /\ r.decision.send_alert
                   /\ r.decision.alert_title = TITLE_WORSENED_AGAIN
                   /\ r.decision.alert_title # TITLE_DETECTED

(***************************************************************************)
(* C15  Recovery notifications are confined: a run of monitor_task that     *)
(* decides send_recovery started in MONITORING and ended in NORMAL, with    *)
(* notification_sent true before it and the recovery cooldown elapsed at    *)
(* its clock reading; runs from SUSPECTED, NORMAL or OUTAGE never decide    *)
(* send_recovery.  (The state machine runs only while a channel is          *)
(* registered.)                                                             *)
(***************************************************************************)
RecoveryConfined ==
    /\ send_recovery => (prev_state = MONITORING /\ state = NORMAL)
    /\ (state = MONITORING /\ channels # {}) =>
          \A a \in OutageAnalysis : \A t \in NextTimes :
              \A r \in {step(Context, a, t)} :
                  r.decision.send_recovery =>
                      /\ r.ctx.state = NORMAL
                      /\ notification_sent
                      /\ t - last_recovery_timestamp >= RECOVERY_COOLDOWN_SEC

\* a recovery was announced for an incident that had been alerted
RecoveryAfterAlert ==
    /\ send_recovery
    /\ prev_state = MONITORING
    /\ state = NORMAL
    /\ recovery_times = {now_ts}
    /\ alert_times # {}

(***************************************************************************)
(* C16  Recovery cooldown law: any two runs of monitor_task that both       *)
(* decide send_recovery have clock readings at least RECOVERY_COOLDOWN_SEC  *)
(* apart.                                                                   *)
(***************************************************************************)
RecoveryCooldownLaw ==
    \A t1 \in recovery_times : \A t2 \in recovery_times :
        t1 < t2 => t2 - t1 >= RECOVERY_COOLDOWN_SEC

\* the recoveries of two incidents were both announced
SecondRecoveryAnnounced ==
    /\ Cardinality(recovery_times) >= 2
    /\ send_recovery
    /\ now_ts \in recovery_times

(***************************************************************************)
(* C17  notification_sent records every alert of the incident: after a run  *)
(* of monitor_task that decided send_alert (first detection, severity       *)
(* increase or re-entry from MONITORING) notification_sent is true, and a   *)
(* later run leaves it true unless it moves the state to NORMAL.            *)
(***************************************************************************)
AlertIsRecorded ==
    /\ send_alert => notification_sent
    /\ notification_sent =>
          \A a \in OutageAnalysis : \A t \in NextTimes :
              \A r \in {step(Context, a, t)} :
                  r.ctx.state # NORMAL => r.ctx.notification_sent

(***************************************************************************)
(* C18  get_severity_score returns for every label, its result is in 0..4,  *)
(* and it is the score of the highest tier one of whose keywords occurs in  *)
(* the label with letter case ignored (official / major 4, cannot connect   *)
(* 3, degraded / unstable / heavy 2, minor 1, none / normal 0); a label in  *)
(* which no keyword occurs scores 2; the label in lower case gets the same  *)
(* score.                                                                   *)
(***************************************************************************)
\* the keywords of each tier
TierKeywords ==
    [k \in 0..4 |->
        CASE k = 4 -> {KW_KOUSHIKI, KW_OFFICIAL, KW_MAJOR}
          [] k = 3 -> {KW_SETSUZOKUFUKA, KW_HAIRENAI, KW_CANNOT_CONNECT}
          [] k = 2 -> {KW_FUANTEI, KW_OMOI, KW_DEGRADED, KW_UNSTABLE}
          [] k = 1 -> {KW_KEIBI, KW_MINOR}
          [] k = 0 -> {KW_NASHI, KW_NORMAL}]

\* the tiers one of whose keywords occurs in label, letter case ignored
MatchedTiers(label) ==
    {k \in 0..4 : \E kw \in TierKeywords[k] : Contains(Lower(label), kw)}

SeverityScoreLaw ==
    /\ ~classified.returned => ENABLED call_get_severity_score
    /\ classified.returned =>
          \A tiers \in {MatchedTiers(classified.severity_str)} :
              /\ classified.score \in 0..4
              /\ tiers = {} => classified.score = 2
              /\ tiers # {} =>
                    /\ classified.score \in tiers
                    /\ \A k \in tiers : k <= classified.score
              /\ classified.score = get_severity_score(Lower(classified.severity_str))

\* a label with keywords of tiers 1 and 4, not all in lower case, was scored 4
SeveralTiersScored ==
    /\ classified.returned
    /\ {1, 4} \subseteq MatchedTiers(classified.severity_str)
    /\ classified.severity_str # Lower(classified.severity_str)
    /\ classified.score = 4

(***************************************************************************)
(* C19  No fatal path: in each of the four states, a run of monitor_task    *)
(* with any judgment (every combination of is_outage, is_official and       *)
(* should_notify, with every label, the empty one and the unrecognized ones *)
(* included) ends with a context every field of which has a value of its    *)
(* kind and with a decision; every context reached is such a context.  (The *)
(* state machine runs only while a channel is registered.)                  *)
(***************************************************************************)
\* the contexts all of whose fields have a value of their kind
Contexts ==
    [state : MonitorState,
     consecutive_outage_count : Nat,
     consecutive_recovery_count : Nat,
     notify_streak : Nat, degraded_streak : Nat, normal_streak : Nat,
     last_alert_timestamp : Nat,
     last_recovery_timestamp : Nat,
     last_severity : SeverityLabels,
     last_severity_score : 0..4,
     notification_sent : BOOLEAN]

Decisions == [send_alert : BOOLEAN, send_recovery : BOOLEAN, alert_title : AlertTitles]

\* the judgments whose label no rule of get_severity_score matches
OddAnalyses == {a \in OutageAnalysis : a.severity \in {SEV_EMPTY} \cup UnknownMarkers}

CollaboratorFailureIsNoOp ==
    \A investigation_raised \in BOOLEAN : \A judgment_raised \in BOOLEAN :
        (investigation_raised \/ judgment_raised) =>
            \A report \in {investigate_server_status(investigation_raised)} :
                \A parsed \in parsed_answers(report) :
                    \A a \in {analyze_situation_report(report, judgment_raised, parsed)} :
                        /\ inconclusive[a.severity]
                        /\ \A t \in NextTimes : \A r \in {step(Context, a, t)} :
                              /\ r.ctx = Context
                              /\ Silent(r)

(***************************************************************************)
(* C21  Single writer: a step in which a command or a chat reply answers   *)
(* (manual diagnosis on real or fake data, status_info, on_message, the     *)
(* registration of channels and mentions) leaves every field of the         *)
(* context unchanged, wherever it falls among the runs of monitor_task; a   *)
(* step that changes a field of the context is a run of monitor_task that   *)
(* went through the state machine.                                          *)
(***************************************************************************)
SingleWriter ==
    [][/\ response'.handler # NoResponse.handler => UNCHANGED ctx
       /\ ~(UNCHANGED ctx) =>
             /\ response' = NoResponse
             /\ returned_at' = AT_END
             /\ now_ts' > now_ts]_vars

\* a manual diagnosis ran during an incident and stored its own report
DiagnosisDuringIncident ==
    /\ state \in {OUTAGE, MONITORING}
    /\ returned_at = AT_END
    /\ response.handler = "run_realtime_diagnosis_test"
    /\ latest_investigation_report = REPORT_ERROR
    /\ chat_sessions # {}
    /\ mentions # NoMentions

(***************************************************************************)
(* C22  In OUTAGE, a conclusive outage judgment changes last_severity_score *)
(* only when its score is above last_severity_score and should_notify is    *)
(* true; a judgment without should_notify, or with a score not above        *)
(* last_severity_score, leaves last_severity_score as it was, so the score  *)
(* never goes down while the state stays OUTAGE.                            *)
(***************************************************************************)
SeverityScoreOnlyRises ==
    (state = OUTAGE /\ channels # {}) =>
        \A a \in OutageAnalyses : \A t \in NextTimes :
            \A r \in {step(Context, a, t)} :
                /\ r.ctx.last_severity_score # last_severity_score
                      => (/\ severity_score[a.severity] > last_severity_score
                          /\ a.should_notify)
                /\ r.ctx.last_severity_score >= last_severity_score

(***************************************************************************)
(* C23 as stated: a conclusive normal judgment seen in NORMAL, SUSPECTED or  *)
(* MONITORING leaves an outage count of 0 in that run, in MONITORING also    *)
(* when the recovery is not yet complete.                                    *)
(***************************************************************************)
CleanResetsOutageCount ==
    (state \in {NORMAL, SUSPECTED, MONITORING} /\ channels # {}) =>
        \A a \in CleanAnalyses : \A t \in NextTimes :
            \A r \in {step(Context, a, t)} : r.ctx.consecutive_outage_count = 0

(***************************************************************************)
(* C23 amended: a conclusive normal judgment seen in NORMAL or SUSPECTED     *)
(* leaves an outage count of 0 in that run.  In MONITORING it leaves the     *)
(* outage count as it was (at least 1) while the recovery is not complete,   *)
(* and 0 in the run that completes the recovery and moves to NORMAL.         *)
(***************************************************************************)
CleanResetsOutageCountOutsideMonitoring ==
    /\ (state \in {NORMAL, SUSPECTED} /\ channels # {}) =>
          \A a \in CleanAnalyses : \A t \in NextTimes :
              \A r \in {step(Context, a, t)} : r.ctx.consecutive_outage_count = 0
    /\ (state = MONITORING /\ channels # {}) =>
          /\ consecutive_outage_count >= 1
          /\ \A a \in CleanAnalyses : \A t \in NextTimes :
                \A r \in {step(Context, a, t)} :
                    IF r.ctx.state = NORMAL
                    THEN r.ctx.consecutive_outage_count = 0
                    ELSE /\ r.ctx.state = MONITORING
                         /\ r.ctx.consecutive_outage_count = consecutive_outage_count

\* a normal judgment was seen in MONITORING and the outage count is still there
OutageCountKeptInMonitoring ==
    /\ prev_state = MONITORING
    /\ state = MONITORING
    /\ returned_at = AT_END
    /\ consecutive_recovery_count = 2
    /\ consecutive_outage_count >= 1

RecoveryResetsContext ==
    /\ (prev_state = MONITORING /\ state = NORMAL) =>
          /\ consecutive_outage_count = 0
          /\ consecutive_recovery_count = 0
          /\ last_severity_score = 0
          /\ notification_sent = FALSE
    /\ (state = MONITORING /\ channels # {}) =>
          \A a \in OutageAnalysis : \A t \in NextTimes :
              \A r \in {step(Context, a, t)} :
                  r.ctx.state = NORMAL =>
                      /\ r.ctx.consecutive_outage_count = 0
                      /\ r.ctx.consecutive_recovery_count = 0
                      /\ r.ctx.last_severity_score = 0
                      /\ r.ctx.notification_sent = FALSE

\* NORMAL was reached from an alerted incident while the recovery cooldown
\* held the notification back
RecoveryHeldBack ==
    /\ prev_state = MONITORING
    /\ state = NORMAL
    /\ returned_at = AT_END
    /\ ~send_recovery
    /\ recovery_times # {}
    /\ \E t \in alert_times : \A u \in recovery_times : u < t
    /\ now_ts - last_recovery_timestamp < RECOVERY_COOLDOWN_SEC

(***************************************************************************)
(* C26  The recovery count is tied to MONITORING: in every reachable         *)
(* context it is 0 when the state is NORMAL, SUSPECTED or OUTAGE, and at      *)
(* least 1 and below RECOVERY_CONFIRM_COUNT when the state is MONITORING.    *)
(***************************************************************************)
RecoveryCountTiedToMonitoring ==
    /\ state \in {NORMAL, SUSPECTED, OUTAGE} => consecutive_recovery_count = 0
    /\ state = MONITORING =>
          /\ consecutive_recovery_count >= 1
          /\ consecutive_recovery_count < RECOVERY_CONFIRM_COUNT

\* an inconclusive run in MONITORING one normal judgment short of the recovery
MonitoringOneShort ==
    /\ state = MONITORING
    /\ returned_at = AT_INCONCLUSIVE
    /\ consecutive_recovery_count = RECOVERY_CONFIRM_COUNT - 1

(***************************************************************************)
(* C27  Conservative recovery: when a run of monitor_task moves the state    *)
(* from MONITORING to NORMAL, the last RECOVERY_CONFIRM_COUNT conclusive      *)
(* judgments, that of this run included, were all normal; no run goes from   *)
(* OUTAGE to NORMAL; the recovery count never exceeds the number of          *)
(* conclusive normal judgments seen in a row, and an outage judgment in      *)
(* MONITORING puts both back to 0, so that three further normal judgments    *)
(* in a row are needed.                                                      *)
(***************************************************************************)
ConservativeRecovery ==
    /\ (prev_state = MONITORING /\ state = NORMAL) => clean_run = RECOVERY_CONFIRM_COUNT
    /\ ~(prev_state = OUTAGE /\ state = NORMAL)
    /\ consecutive_recovery_count <= clean_run
    /\ (state = MONITORING /\ channels # {}) =>
          \A a \in OutageAnalysis : \A t \in NextTimes :
              \A r \in {step(Context, a, t)} :
                  /\ r.ctx.state = NORMAL =>
                        /\ ~a.is_outage
                        /\ ~inconclusive[a.severity]
                        /\ consecutive_recovery_count = RECOVERY_CONFIRM_COUNT - 1
                  /\ (a.is_outage /\ ~inconclusive[a.severity]) =>
                        /\ r.ctx.state = OUTAGE
                        /\ r.ctx.consecutive_recovery_count = 0

\* an incident that was never alerted ended after three normal judgments
ConservativelyRecovered ==
    /\ prev_state = MONITORING
    /\ state = NORMAL
    /\ returned_at = AT_END
    /\ clean_run = RECOVERY_CONFIRM_COUNT
    /\ alert_times = {}
    /\ ~send_recovery

(***************************************************************************)
(* C28  Cooldown timestamp discipline: a run of monitor_task leaves          *)
(* last_alert_timestamp as it was unless it decides send_alert, and then     *)
(* sets it to its clock reading; it leaves last_recovery_timestamp as it was *)
(* unless it decides send_recovery, and then sets it to its clock reading;   *)
(* so a run that fires one kind leaves the timestamp of the other kind.      *)
(* Neither timestamp is ahead of the clock, hence with a clock that does not *)
(* go back neither ever decreases; each is 0 or the time of a notification   *)
(* of its kind.                                                              *)
(***************************************************************************)
TimestampDiscipline ==
    /\ last_alert_timestamp <= now_ts
    /\ last_recovery_timestamp <= now_ts
    /\ send_alert => last_alert_timestamp = now_ts
    /\ send_recovery => last_recovery_timestamp = now_ts
    /\ last_alert_timestamp \in alert_times \cup {0}
    /\ last_recovery_timestamp \in recovery_times \cup {0}
    /\ channels # {} =>
          \A a \in OutageAnalysis : \A t \in NextTimes :
              \A r \in {step(Context, a, t)} :
                  /\ r.ctx.last_alert_timestamp =
                        IF r.decision.send_alert THEN t ELSE last_alert_timestamp
                  /\ r.ctx.last_recovery_timestamp =
                        IF r.decision.send_recovery THEN t ELSE last_recovery_timestamp

\* a recovery was stamped and the stamp of the earlier alert is still there
BothTimestampsSet ==
    /\ send_recovery
    /\ last_recovery_timestamp = now_ts
    /\ last_alert_timestamp > 0
    /\ last_alert_timestamp < last_recovery_timestamp
    /\ last_alert_timestamp \in alert_times

(***************************************************************************)
(* C29  Fast detection: from every reachable context, a conclusive outage    *)
(* judgment gives OUTAGE or SUSPECTED, SUSPECTED only from NORMAL, and a      *)
(* second one right after it gives OUTAGE, so that the state is OUTAGE after *)
(* at most OUTAGE_NOTIFY_CONFIRM_COUNT runs; in OUTAGE every conclusive      *)
(* outage judgment keeps OUTAGE.                                             *)
(***************************************************************************)
FastDetection ==
    channels # {} =>
        \A a1 \in OutageAnalyses : \A d1 \in Deltas :
            \A r1 \in {step(Context, a1, now_ts + d1)} :
                /\ r1.ctx.state \in {OUTAGE, SUSPECTED}
                /\ state \in {SUSPECTED, MONITORING, OUTAGE} => r1.ctx.state = OUTAGE
                /\ r1.ctx.state = SUSPECTED =>
                      \A a2 \in OutageAnalyses : \A d2 \in Deltas :
                          \A r2 \in {step(r1.ctx, a2, now_ts + d1 + d2)} :
                              r2.ctx.state = OUTAGE

\* OUTAGE reached by the second outage judgment while the alert was held back
DetectedWithinTwoRuns ==
    /\ prev_state = SUSPECTED
    /\ state = OUTAGE
    /\ returned_at = AT_END
    /\ consecutive_outage_count = OUTAGE_NOTIFY_CONFIRM_COUNT
    /\ clean_run = 0
    /\ ~send_alert
    /\ ~notification_sent

SuspectedIsOneRun ==
    /\ state = SUSPECTED =>
          /\ consecutive_outage_count = 1
          /\ notification_sent = FALSE
          /\ prev_state \in {NORMAL, SUSPECTED}
          /\ prev_state = SUSPECTED => returned_at # AT_END
    /\ channels # {} =>
          \A a \in ConclusiveAnalyses : \A t \in NextTimes :
              \A r \in {step(Context, a, t)} :
                  /\ r.ctx.state = SUSPECTED => state = NORMAL
                  /\ state = SUSPECTED =>
                        r.ctx.state = IF a.is_outage THEN OUTAGE ELSE NORMAL

\* a suspicion that the second outage judgment has turned into an outage
SuspicionLeftForOutage ==
    /\ prev_state = SUSPECTED
    /\ returned_at = AT_END
    /\ state = OUTAGE
    /\ consecutive_outage_count = 2

(***************************************************************************)
(* C37  No run of monitor_task produces both notifications: for every      *)
(* reachable context, judgment and clock reading, the decision never has   *)
(* send_alert and send_recovery together, and no run has sent both.        *)
(***************************************************************************)
NeverBothNotifications ==
    /\ ~(send_alert /\ send_recovery)
    /\ alert_times \cap recovery_times = {}
    /\ channels # {} =>
          \A a \in Judgments : \A t \in NextTimes :
              \A r \in {step(Context, a, t)} :
                  ~(r.decision.send_alert /\ r.decision.send_recovery)

\* a recovery notification has gone out, and with it no alert
RecoveryWithoutAlert ==
    /\ send_recovery
    /\ ~send_alert
    /\ returned_at = AT_END
    /\ now_ts \in recovery_times
    /\ alert_times # {}

(***************************************************************************)
(* C32  Two tiers for odd severity labels: _is_analysis_inconclusive holds *)
(* exactly for the "unknown" marker.  Every other label that matches no    *)
(* keyword, the empty label and a label that merely contains the word      *)
(* "unknown" included, is not inconclusive, has the score 2, which is      *)
(* below the critical score, and is handled by the state machine as the    *)
(* keyword label of score 2 is: the decision and every field of the        *)
(* context but last_severity are the same.  With is_outage it increments   *)
(* the outage count outside OUTAGE, takes NORMAL to SUSPECTED when it is   *)
(* not official, and takes SUSPECTED to OUTAGE with an alert whenever the  *)
(* alert cooldown has elapsed.                                             *)
(***************************************************************************)
TwoTierOddLabels ==
    /\ \A l \in SeverityLabels : inconclusive[l] <=> l \in UnknownMarkers
    /\ \A l \in UnrecognizedLabels :
          /\ ~is_analysis_inconclusive([severity |-> l])
          /\ get_severity_score(l) = 2
          /\ severity_score[l] < CRITICAL_SEVERITY
    /\ channels # {} =>
          \A a \in {x \in OutageAnalysis : x.severity \in UnrecognizedLabels} :
              \A t \in NextTimes :
                  \A r \in {step(Context, a, t)} :
                      /\ \A k \in {step(Context, [a EXCEPT !.severity = SEV_FUANTEI], t)} :
                            /\ r.decision = k.decision
                            /\ [r.ctx EXCEPT !.last_severity = SEV_FUANTEI]
                                   = [k.ctx EXCEPT !.last_severity = SEV_FUANTEI]
                      /\ (a.is_outage /\ state # OUTAGE) =>
                            r.ctx.consecutive_outage_count = consecutive_outage_count + 1
                      /\ (a.is_outage /\ ~a.is_official /\ state = NORMAL) =>
                            r.ctx.state = SUSPECTED /\ Silent(r)
                      /\ (a.is_outage /\ state = SUSPECTED) =>
                            /\ r.ctx.state = OUTAGE
                            /\ r.decision.send_alert <=> can_send_alert(Context, t)

\* an outage alerted on the second judgment with a label that only contains
\* the word "unknown"
OddLabelAlerted ==
    /\ prev_state = SUSPECTED
    /\ state = OUTAGE
    /\ send_alert
    /\ last_severity = SEV_UNKNOWN_CAUSE
    /\ last_severity_score = 2

(***************************************************************************)
(* C38  The registry of notification channels behaves as a set: starting   *)
(* from the empty list, after any sequence of add_channel and              *)
(* remove_channel calls no channel id is listed more than once;            *)
(* add_channel of a listed id returns False and leaves the list as it      *)
(* was, remove_channel of an id that is not listed returns False and       *)
(* leaves it as it was; a call that returns True lists exactly the ids it  *)
(* should; and add_channel of a new id followed by remove_channel of the   *)
(* same id gives back the previous set of ids.                             *)
(***************************************************************************)
RegistryIsASet ==
    /\ Len(registry.channels) = Cardinality(Range(registry.channels))
    /\ channels = Range(registry.channels)
    /\ registry.call = "add_channel" =>
          /\ registry.result <=> registry.channel_id \notin Range(registry.before)
          /\ ~registry.result => registry.channels = registry.before
          /\ Range(registry.channels) = Range(registry.before) \cup {registry.channel_id}
    /\ registry.call = "remove_channel" =>
          /\ registry.result <=> registry.channel_id \in Range(registry.before)
          /\ ~registry.result => registry.channels = registry.before
          /\ Range(registry.channels) = Range(registry.before) \ {registry.channel_id}
    /\ \A channel_id \in RegistryIds \ Range(registry.channels) :
          \A added \in ChannelManager_add_channel(registry.channels, channel_id) :
              \A removed \in ChannelManager_remove_channel(added.channels, channel_id) :
                  /\ added.result
                  /\ removed.result
                  /\ Range(removed.channels) = Range(registry.channels)

\* add_channel has just refused an id that two other ids are listed with
AddRefusedOnFullerList ==
    /\ registry.call = "add_channel"
    /\ ~registry.result
    /\ Len(registry.channels) = 3
    /\ registry.channels = registry.before

(***************************************************************************)
(* C31  Runs of monitor_task are serialized and reads are never torn: a    *)
(* run starts only when no run is under way, the context changes only in   *)
(* the step in which the run under way receives its judgment, and what     *)
(* /status_info reads, at whatever await the run is waiting, satisfies the *)
(* invariants of the context, as the context itself does at every await:   *)
(* NORMAL never comes with an outage count or a recovery count above 0.    *)
(***************************************************************************)
SerializedAndUntorn ==
    /\ [](/\ ContextInvariants(Context)
          /\ inspected.read => ContextInvariants(inspected))
    /\ [][/\ (pc' = WAIT_INVESTIGATION /\ pc # WAIT_INVESTIGATION) => pc = WAIT_NONE
          /\ ~(UNCHANGED ctx) => (pc = WAIT_JUDGMENT /\ pc' = WAIT_PRESENCE)
          /\ inspected' # inspected => UNCHANGED <<ctx, pc>>]_vars

\* /status_info read a suspicion while the run was waiting for its judgment,
\* and the run has cleared the suspicion since
ReadWhileWaiting ==
    /\ inspected.read
    /\ inspected.at = WAIT_JUDGMENT
    /\ inspected.state = SUSPECTED
    /\ pc = WAIT_PRESENCE
    /\ state = NORMAL

(***************************************************************************)
(* C33  A first alert the cooldown held back is caught up.  When a run     *)
(* enters OUTAGE from NORMAL or SUSPECTED and cannot alert, and every      *)
(* judgment after it is conclusive with is_outage, should_notify and a     *)
(* score of at least 1, then as long as no alert has gone out the state is *)
(* OUTAGE, last_severity_score is still 0 and the cooldown had not elapsed *)
(* at the last of these runs; and the next such judgment sends the alert   *)
(* exactly when the cooldown has elapsed at its run.  So the alert goes    *)
(* out in the first run at which the cooldown has elapsed.                 *)
(***************************************************************************)
SuppressedAlertCaughtUp ==
    /\ incident.unannounced =>
          /\ state = OUTAGE
          /\ last_severity_score = 0
          /\ returned_at = AT_END =>
                (~send_alert /\ ~can_send_alert(Context, now_ts))
          /\ channels # {} =>
                \A a \in {x \in OutageAnalyses :
                             x.should_notify /\ severity_score[x.severity] >= 1} :
                    \A t \in NextTimes :
                        \A r \in {step(Context, a, t)} :
                            /\ r.ctx.state = OUTAGE
                            /\ r.decision.send_alert <=> can_send_alert(Context, t)
                            /\ ~r.decision.send_alert => r.ctx = update_streaks(Context, a)
    /\ incident.caught_up =>
          /\ send_alert
          /\ state = OUTAGE
          /\ last_alert_timestamp = now_ts

\* the alert of an outage that was entered during the cooldown has gone out,
\* more than one run after the outage was entered
AlertCaughtUp ==
    /\ incident.caught_up
    /\ send_alert
    /\ alert_title = TITLE_SEVERITY_UP
    /\ prev_state = OUTAGE
    /\ ~notification_sent
    /\ Cardinality(alert_times) >= 2

(***************************************************************************)
(* C34  A recovery the cooldown holds back is dropped, not deferred.  The  *)
(* run that completes the recovery in MONITORING moves to NORMAL and       *)
(* clears notification_sent whether or not the notification can go out,    *)
(* and sends it exactly when notification_sent was set and the recovery    *)
(* cooldown has elapsed.  After a recovery was held back, and until a run  *)
(* sends an alert, notification_sent stays false and no run sends a        *)
(* recovery notification.                                                  *)
(***************************************************************************)
SuppressedRecoveryDropped ==
    /\ (state = MONITORING /\ channels # {}
          /\ consecutive_recovery_count = RECOVERY_CONFIRM_COUNT - 1) =>
          \A a \in CleanAnalyses : \A t \in NextTimes :
              \A r \in {step(Context, a, t)} :
                  /\ r.ctx.state = NORMAL
                  /\ ~r.ctx.notification_sent
                  /\ r.decision.send_recovery <=>
                        (notification_sent /\ can_send_recovery(Context, t))
                  /\ ~r.decision.send_recovery =>
                        r.ctx.last_recovery_timestamp = last_recovery_timestamp
    /\ incident.dropped =>
          /\ ~notification_sent
          /\ ~send_recovery
          /\ channels # {} =>
                \A a \in Judgments : \A t \in NextTimes :
                    \A r \in {step(Context, a, t)} : ~r.decision.send_recovery

\* after a recovery was held back, a run has entered the next outage, its
\* alert held back as well
NextIncidentAfterDrop ==
    /\ incident.dropped
    /\ returned_at = AT_END
    /\ prev_state = NORMAL
    /\ state = OUTAGE
    /\ ~send_alert

(***************************************************************************)
(* C35 as stated: a severity increase seen during the cooldown is not      *)
(* lost.  In OUTAGE a judgment with should_notify and a score above        *)
(* last_severity_score whose run falls into the alert cooldown sends       *)
(* nothing and leaves last_severity_score as it was; and when the          *)
(* cooldown has not elapsed at the last run and a severity increase was    *)
(* held back in this stay in OUTAGE, a judgment with should_notify and     *)
(* the same score at the first run after the cooldown sends the alert      *)
(* with the title of a severity increase.                                  *)
(***************************************************************************)
SeverityIncreaseNotLost ==
    (state = OUTAGE /\ channels # {}) =>
        /\ \A a \in {x \in OutageAnalyses :
                        /\ x.should_notify
                        /\ severity_score[x.severity] > last_severity_score} :
              \A t \in {u \in NextTimes : ~can_send_alert(Context, u)} :
                  \A r \in {step(Context, a, t)} :
                      /\ Silent(r)
                      /\ r.ctx.last_severity_score = last_severity_score
        /\ (incident.held_score > 0 /\ ~can_send_alert(Context, now_ts)) =>
              \A a \in {x \in OutageAnalyses :
                           /\ x.should_notify
                           /\ severity_score[x.severity] = incident.held_score} :
                  \A t \in {u \in NextTimes : can_send_alert(Context, u)} :
                      \A r \in {step(Context, a, t)} :
                          /\ r.decision.send_alert
                          /\ r.decision.alert_title = TITLE_SEVERITY_UP

====
